---- MODULE Spec2Model ----
(***************************************************************************)
(* The Redis metadata engine of pkg/meta/redis.go as a state machine.      *)
(*                                                                         *)
(* The KV store is one variable per key namespace.  A client call or a     *)
(* goroutine is a thread record in `threads`; every Redis round trip that  *)
(* can be interleaved with other clients is one step of its thread.        *)
(* WATCH/MULTI/EXEC follows Redis: WATCH records the keys, a write to a    *)
(* watched key marks the watcher dirty, EXEC of a dirty watcher fails with *)
(* TxFailedErr and applies nothing.  A pipeline opened with tx.Pipelined   *)
(* is sent without MULTI: its commands are applied one per step and are    *)
(* never refused by a dirty WATCH.                                         *)
(*                                                                         *)
(* Lengths are counted in units of half a page (PageSize units make 4 KiB),*)
(* so that align4K still rounds; ChunkSize is two pages.                   *)
(***************************************************************************)
EXTENDS Integers, Sequences, FiniteSets, TLC

\* ----------------------------------------------------------------- bounds
MaxIno == 3
MaxOps == 3
MaxChunkId == 8
PageSize == 2
MaxLog == 3
MaxPos == 2

\* -------------------------------------------------------------- constants
ChunkSize == 2 * PageSize
RootInode == 1
RootLength == PageSize
TxnRetries == 50
ReadCompactThreshold == 5
WriteCompactPeriod == 20
RecompactThreshold == 5
CompactRange == 200
ScanRange == 100
DeleteRange == 100
MaxCompacting == 10
ReadRange == 1000000
\* The unsigned fields wrap as uint32 does; the model's are 31 bits wide.
MaxUint32 == 2147483647
Inc32(n) == IF n = MaxUint32 THEN 0 ELSE n + 1
Dec32(n) == IF n = 0 THEN MaxUint32 ELSE n - 1

TypeFile == "file"
TypeDirectory == "dir"
TypeSymlink == "symlink"

Names == {"a", "b"}
Engines == {1, 2}
Procs == {"p1", "p2", "p3"}
EngineOf(p) == IF p = "p2" THEN 2 ELSE 1
Inos == 1..MaxIno
Indexes == {0, 1}

VARIABLES
    inode,        \* i$inode -> Attr
    dent,         \* d$parent -> {name -> (type, inode)}, keyed by <<parent, name>>
    chunks,       \* c$inode_$indx -> list of slice records, keyed by <<inode, indx>>
    refs,         \* k$chunkid_$size -> refcount, keyed by <<chunkid, size>>
    sustain,      \* session$sid -> set of inodes
    delfiles,     \* delfiles sorted set: member <<inode, length>> -> score
    sessions,     \* sessions sorted set: sid -> time of the last heartbeat
    locks,        \* lockf$inode, lockp$inode: fields <<key, sid, owner>>
    setting,      \* the format of the volume
    xattrs,       \* x$inode -> set of xattr names
    symlinks,     \* inodes with a key s$inode
    usedSpace,    \* counter
    totalInodes,  \* counter
    nextinode,    \* counter
    nextchunk,    \* counter
    openFiles,    \* per engine: inode -> open count
    removedFiles, \* per engine: set of inodes
    compacting,   \* per engine: set of <<inode, indx>>
    objects,      \* data plane: content of the objects written by CompactChunk
    deleted,      \* data plane: DeleteChunk messages received, <<chunkid, size>>
    handles,      \* bridge: handles each engine's caller holds, inode -> count
    threads,      \* running calls and goroutines
    calls,        \* calls started
    done          \* last completed call per caller

vars == <<inode, dent, chunks, refs, sustain, delfiles, sessions, locks,
          setting, xattrs, symlinks, usedSpace, totalInodes, nextinode, nextchunk, openFiles,
          removedFiles, compacting, objects, deleted, handles, threads,
          calls, done>>

\* ------------------------------------------------------------ key schema
inodeKey(ino) == <<"i", ino>>
entryKey(parent) == <<"d", parent>>
chunkKey(ino, indx) == <<"c", ino, indx>>
sliceKey(chunkid, size) == <<"k", chunkid, size>>
xattrKey(ino) == <<"x", ino>>
symKey(ino) == <<"s", ino>>
sessionKey(sid) == <<"session", sid>>
toDelete(ino, length) == <<ino, length>>
NoKey == <<>>

Put(f, k, v) == [x \in DOMAIN f \cup {k} |-> IF x = k THEN v ELSE f[x]]
Drop(f, k) == [x \in DOMAIN f \ {k} |-> f[x]]
Empty == [x \in {} |-> 0]

align4K(length) ==
    IF length = 0 THEN 0 ELSE (((length - 1) \div PageSize) + 1) * PageSize

\* Attr as marshalled: the fields the transactions use. Mode is the set of
\* the bits that are set, the nine permission bits taken as one; a time is 0,
\* before the calls, or a later reading of the clock.
NewAttr(typ, nlink, length, parent) ==
    [Typ |-> typ, Nlink |-> nlink, Length |-> length, Parent |-> parent,
     Mode |-> {}, Uid |-> 0, Gid |-> 0, Atime |-> 0, Mtime |-> 0, Ctime |-> 0]

\* time.Now() of every call, in minutes: later than the times of the initial
\* records.
Now == 200
Ctimed(attr) == [attr EXCEPT !.Ctime = Now]
Mtimed(attr) == [attr EXCEPT !.Mtime = Now, !.Ctime = Now]
packEntry(typ, ino) == [typ |-> typ, ino |-> ino]

\* No key "setting".
NoFormat == <<>>

\* The store as one value, for the command interpreter.
DB == [inode |-> inode, dent |-> dent, chunks |-> chunks, refs |-> refs,
       sustain |-> sustain, delfiles |-> delfiles, xattrs |-> xattrs,
       symlinks |-> symlinks, usedSpace |-> usedSpace,
       totalInodes |-> totalInodes]

Commit(d) ==
    /\ inode' = d.inode
    /\ dent' = d.dent
    /\ chunks' = d.chunks
    /\ refs' = d.refs
    /\ sustain' = d.sustain
    /\ delfiles' = d.delfiles
    /\ xattrs' = d.xattrs
    /\ symlinks' = d.symlinks
    /\ usedSpace' = d.usedSpace
    /\ totalInodes' = d.totalInodes
    /\ UNCHANGED <<sessions, locks, setting>>

\* An entry map that always counts as empty.
HLenZero(d, parent) == 0
HLen(d, parent) == Cardinality({k \in DOMAIN d.dent : k[1] = parent})
LRange(d, ino, indx, stop) ==
    IF <<ino, indx>> \in DOMAIN d.chunks
    THEN LET l == d.chunks[<<ino, indx>>]
             n == IF stop < 0 THEN Len(l) + 1 + stop ELSE stop + 1
         IN  SubSeq(l, 1, IF n > Len(l) THEN Len(l) ELSE n)
    ELSE <<>>
LLen(d, ino, indx) == Len(LRange(d, ino, indx, -1))

\* ------------------------------------------------------ Redis commands
Set(ino, attr) == [cmd |-> "Set", ino |-> ino, attr |-> attr]
SetSym(ino, path) == [cmd |-> "SetSym", ino |-> ino, path |-> path]
Del(key) == [cmd |-> "Del", key |-> key]
HSet(parent, name, entry) ==
    [cmd |-> "HSet", parent |-> parent, name |-> name, entry |-> entry]
HDel(parent, name) == [cmd |-> "HDel", parent |-> parent, name |-> name]
SAdd(sid, ino) == [cmd |-> "SAdd", sid |-> sid, ino |-> ino]
SRem(sid, ino) == [cmd |-> "SRem", sid |-> sid, ino |-> ino]
ZAdd(member, score) == [cmd |-> "ZAdd", member |-> member, score |-> score]
ZRem(member) == [cmd |-> "ZRem", member |-> member]
IncrBy(counter, n) == [cmd |-> "IncrBy", counter |-> counter, n |-> n]
RPush(ino, indx, rec) ==
    [cmd |-> "RPush", ino |-> ino, indx |-> indx, rec |-> rec]
RPushX(ino, indx, rec) ==
    [cmd |-> "RPushX", ino |-> ino, indx |-> indx, rec |-> rec]
LPush(ino, indx, rec) ==
    [cmd |-> "LPush", ino |-> ino, indx |-> indx, rec |-> rec]
LPop(ino, indx) == [cmd |-> "LPop", ino |-> ino, indx |-> indx]
LTrim(ino, indx, start) ==
    [cmd |-> "LTrim", ino |-> ino, indx |-> indx, start |-> start]
IncrRef(chunkid, size, n) ==
    [cmd |-> "IncrRef", chunkid |-> chunkid, size |-> size, n |-> n]

\* A list key with no element does not exist.
SetList(d, k, l) ==
    [d EXCEPT !.chunks = IF l = <<>> THEN Drop(@, k) ELSE Put(@, k, l)]
ListOf(d, k) == IF k \in DOMAIN d.chunks THEN d.chunks[k] ELSE <<>>
RefOf(d, k) == IF k \in DOMAIN d.refs THEN d.refs[k] ELSE 0

DelKey(d, key) ==
    CASE key[1] = "i" -> [d EXCEPT !.inode = Drop(@, key[2])]
      [] key[1] = "x" -> [d EXCEPT !.xattrs = Drop(@, key[2])]
      [] key[1] = "s" -> [d EXCEPT !.symlinks = @ \ {key[2]}]
      [] key[1] = "k" -> [d EXCEPT !.refs = Drop(@, <<key[2], key[3]>>)]
      [] key[1] = "session" -> [d EXCEPT !.sustain[key[2]] = {}]

Exists(d, key) ==
    CASE key[1] = "i" -> key[2] \in DOMAIN d.inode
      [] key[1] = "x" -> key[2] \in DOMAIN d.xattrs
      [] key[1] = "s" -> key[2] \in d.symlinks
      [] key[1] = "k" -> <<key[2], key[3]>> \in DOMAIN d.refs
      [] key[1] = "session" -> d.sustain[key[2]] # {}

\* One command on store d: the store after it, the command's reply and the
\* keys it modified (the keys whose watchers become dirty).
Apply(d, c) ==
    CASE c.cmd = "Set" ->
            [db |-> [d EXCEPT !.inode = Put(@, c.ino, c.attr)], val |-> 0,
             keys |-> {inodeKey(c.ino)}]
      [] c.cmd = "SetSym" ->
            [db |-> [d EXCEPT !.symlinks = @ \cup {c.ino}], val |-> 0,
             keys |-> {symKey(c.ino)}]
      [] c.cmd = "Del" ->
            [db |-> DelKey(d, c.key), val |-> 0,
             keys |-> IF Exists(d, c.key) THEN {c.key} ELSE {}]
      [] c.cmd = "HSet" ->
            [db |-> [d EXCEPT !.dent = Put(@, <<c.parent, c.name>>, c.entry)],
             val |-> 0, keys |-> {entryKey(c.parent)}]
      [] c.cmd = "HDel" ->
            [db |-> [d EXCEPT !.dent = Drop(@, <<c.parent, c.name>>)],
             val |-> 0,
             keys |-> IF <<c.parent, c.name>> \in DOMAIN d.dent
                      THEN {entryKey(c.parent)} ELSE {}]
      [] c.cmd = "SAdd" ->
            [db |-> [d EXCEPT !.sustain[c.sid] = @ \cup {c.ino}], val |-> 0,
             keys |-> {sessionKey(c.sid)}]
      [] c.cmd = "SRem" ->
            [db |-> [d EXCEPT !.sustain[c.sid] = @ \ {c.ino}], val |-> 0,
             keys |-> {sessionKey(c.sid)}]
      [] c.cmd = "ZAdd" ->
            [db |-> [d EXCEPT !.delfiles = Put(@, c.member, c.score)], val |-> 0,
             keys |-> {<<"delfiles">>}]
      [] c.cmd = "ZRem" ->
            [db |-> [d EXCEPT !.delfiles = Drop(@, c.member)], val |-> 0,
             keys |-> {<<"delfiles">>}]
      [] c.cmd = "IncrBy" ->
            IF c.counter = "usedSpace"
            THEN [db |-> [d EXCEPT !.usedSpace = @ + c.n],
                  val |-> d.usedSpace + c.n, keys |-> {<<"usedSpace">>}]
            ELSE [db |-> [d EXCEPT !.totalInodes = @ + c.n],
                  val |-> d.totalInodes + c.n, keys |-> {<<"totalInodes">>}]
      [] c.cmd = "RPush" ->
            LET k == <<c.ino, c.indx>>
                l == Append(ListOf(d, k), c.rec)
            IN  [db |-> SetList(d, k, l), val |-> Len(l),
                 keys |-> {chunkKey(c.ino, c.indx)}]
      [] c.cmd = "RPushX" ->
            LET k == <<c.ino, c.indx>>
            IN  IF k \in DOMAIN d.chunks
                THEN [db |-> SetList(d, k, Append(d.chunks[k], c.rec)),
                      val |-> Len(d.chunks[k]) + 1,
                      keys |-> {chunkKey(c.ino, c.indx)}]
                ELSE [db |-> d, val |-> 0, keys |-> {}]
      [] c.cmd = "LPush" ->
            LET k == <<c.ino, c.indx>>
                l == <<c.rec>> \o ListOf(d, k)
            IN  [db |-> SetList(d, k, l), val |-> Len(l),
                 keys |-> {chunkKey(c.ino, c.indx)}]
      [] c.cmd = "LPop" ->
            LET k == <<c.ino, c.indx>>
            IN  IF k \in DOMAIN d.chunks
                THEN [db |-> SetList(d, k, Tail(d.chunks[k])), val |-> 0,
                      keys |-> {chunkKey(c.ino, c.indx)}]
                ELSE [db |-> d, val |-> 0, keys |-> {}]
      [] c.cmd = "LTrim" ->
            LET k == <<c.ino, c.indx>>
                l == ListOf(d, k)
            IN  [db |-> SetList(d, k, SubSeq(l, c.start + 1, Len(l))),
                 val |-> 0,
                 keys |-> IF l = <<>> THEN {} ELSE {chunkKey(c.ino, c.indx)}]
      [] c.cmd = "IncrRef" ->
            LET k == <<c.chunkid, c.size>>
                v == RefOf(d, k) + c.n
            IN  [db |-> [d EXCEPT !.refs = Put(@, k, v)], val |-> v,
                 keys |-> {sliceKey(c.chunkid, c.size)}]

RECURSIVE Run(_, _, _, _)
Run(d, cmds, res, keys) ==
    IF cmds = <<>>
    THEN [db |-> d, res |-> res, keys |-> keys]
    ELSE LET r == Apply(d, Head(cmds))
         IN  Run(r.db, Tail(cmds), Append(res, r.val), keys \cup r.keys)

\* MULTI ... EXEC of a pipeline.
Exec(d, cmds) == Run(d, cmds, <<>>, {})

\* ------------------------------------------------------------- threads
\* A thread: a call of caller `id` on engine `eng` (or a goroutine, id "go"),
\* at step `pc` of function `fn`, with its arguments in `a` and its local
\* variables in `v`.
NoLocals == [x \in {} |-> 0]
NewThread(id, eng, fn, pc, a, v) ==
    [id |-> id, eng |-> eng, fn |-> fn, pc |-> pc, lock |-> NoKey,
     watch |-> {}, dirty |-> FALSE, tries |-> 0, a |-> a, v |-> v]
Goroutine(eng, fn, pc, a, v) == NewThread("go", eng, fn, pc, a, v)

\* A store whose WATCH never notices a write.
MarkDirtyNever(u, keys) == u

MarkDirty(u, keys) ==
    IF u.watch \cap keys # {} THEN [u EXCEPT !.dirty = TRUE] ELSE u

\* The threads after t stepped to `next` (no thread when t returned), started
\* the goroutines `spawn` and modified `keys`.
Threads(t, next, spawn, keys) ==
    {MarkDirty(u, keys) : u \in threads \ {t}} \cup next \cup spawn

Idle(p) == \A u \in threads : u.id # p
CanCall(p) == Idle(p) /\ calls < MaxOps
Called(p) == calls' = calls + 1

Ret(t, errno) ==
    done' = IF t.id \in Procs
            THEN [done EXCEPT ![t.id] = [fn |-> t.fn, errno |-> errno, a |-> t.a]]
            ELSE done

\* txn: the local lock of the first key, then WATCH and the transaction
\* function; EXEC refused (TxFailedErr) runs the function again, 50 times at most.
\* The slot of a key in txlocks: fnv.New32 over the bytes of the key, modulo
\* the length of the array. The low bits of a product and of an exclusive or
\* depend on the low bits of the operands only, so the hash is computed
\* modulo the length of the array.
TxLocks == 1024
fnvOffset32 == 453
fnvPrime32 == 403
RECURSIVE Xor(_, _)
Xor(a, b) ==
    IF a = 0 THEN b
    ELSE IF b = 0 THEN a
    ELSE ((a + b) % 2) + 2 * Xor(a \div 2, b \div 2)
RECURSIVE FormatInt(_)
FormatInt(n) == IF n < 10 THEN <<48 + n>> ELSE FormatInt(n \div 10) \o <<48 + (n % 10)>>
PrefixByte(c) ==
    CASE c = "i" -> 105 [] c = "d" -> 100 [] c = "c" -> 99
      [] c = "k" -> 107 [] c = "x" -> 120 [] c = "s" -> 115
KeyBytes(key) ==
    <<PrefixByte(key[1])>> \o FormatInt(key[2])
      \o (IF Len(key) = 3 THEN <<95>> \o FormatInt(key[3]) ELSE <<>>)
RECURSIVE fnvWrite(_, _)
fnvWrite(h, bytes) ==
    IF bytes = <<>> THEN h
    ELSE fnvWrite(Xor((h * fnvPrime32) % TxLocks, Head(bytes)), Tail(bytes))
Slot(key) == fnvWrite(fnvOffset32, KeyBytes(key))

\* A runner that takes no local lock.
CanLockFree(t, key) == TRUE

CanLock(t, key) ==
    \/ t.lock = key
    \/ \A u \in threads \ {t} :
          (u.eng = t.eng /\ u.lock # NoKey) => Slot(u.lock) # Slot(key)
txn(t, keys, pc, v) ==
    [t EXCEPT !.lock = keys[1], !.watch = {keys[i] : i \in DOMAIN keys},
              !.dirty = FALSE, !.pc = pc, !.v = v]
Unwatched(t, pc) ==
    [t EXCEPT !.lock = NoKey, !.watch = {}, !.dirty = FALSE, !.tries = 0, !.pc = pc]
Restart(t) ==
    [t EXCEPT !.watch = {}, !.dirty = FALSE, !.tries = @ + 1, !.pc = "txf"]

StoreUnchanged ==
    UNCHANGED <<inode, dent, chunks, refs, sustain, delfiles, sessions, locks,
                setting, xattrs, symlinks, usedSpace, totalInodes>>
FilesUnchanged ==
    UNCHANGED <<inode, dent, chunks, refs, delfiles, xattrs, symlinks,
                usedSpace, totalInodes>>
MemoryUnchanged == UNCHANGED <<openFiles, removedFiles, compacting>>
PlaneUnchanged == UNCHANGED <<objects, deleted>>
CountersUnchanged == UNCHANGED <<nextinode, nextchunk>>

\* The transaction function of t returned errno without EXEC.
TxReturn(t, errno) ==
    /\ threads' = Threads(t, {}, {}, {})
    /\ Ret(t, errno)
    /\ StoreUnchanged

\* EXEC was refused: run the transaction function again, or give up with EIO.
TxFailed(t) ==
    /\ StoreUnchanged
    /\ IF t.tries + 1 < TxnRetries
       THEN threads' = Threads(t, {Restart(t)}, {}, {}) /\ UNCHANGED done
       ELSE threads' = Threads(t, {}, {}, {}) /\ Ret(t, "EIO")

\* errno: nil is 0, a syscall.Errno passes through, redis.Nil is ENOENT and
\* any other error is EIO.
Errnos == {"EPERM", "EEXIST"}
errnoEIO(err) == "EIO"
errno(err) ==
    IF err = "nil" THEN "OK"
    ELSE IF err \in Errnos THEN err
    ELSE IF err = "redis.Nil" THEN "ENOENT"
    ELSE "EIO"

\* What rdb.Watch returns: nil, an errno or redis.Nil of the transaction
\* function, TxFailedErr of a refused EXEC, or another error of the client.
WatchErrors == {"nil", "redis.Nil", "TxFailedErr", "context deadline exceeded"} \cup Errnos

\* txn seen from its caller, for any transaction function: a call, the runs
\* of rdb.Watch under the local lock of the key, and the return.
Txn(p, key) ==
    /\ CanCall(p)
    /\ Called(p)
    /\ threads' = threads \cup
          {NewThread(p, EngineOf(p), "txn", "txf", [key |-> key], NoLocals)}
    /\ StoreUnchanged /\ MemoryUnchanged /\ PlaneUnchanged /\ CountersUnchanged
    /\ UNCHANGED <<handles, done>>

TxnWatch(t, err) ==
    /\ t.fn = "txn" /\ t.pc = "txf"
    /\ CanLock(t, t.a.key)
    /\ threads' = Threads(t, {txn(t, <<t.a.key>>, "exec", [err |-> err])}, {}, {})
    /\ StoreUnchanged /\ MemoryUnchanged /\ PlaneUnchanged /\ CountersUnchanged
    /\ UNCHANGED <<handles, calls, done>>

TxnReturn(t) ==
    /\ t.fn = "txn" /\ t.pc = "exec"
    /\ MemoryUnchanged /\ PlaneUnchanged /\ CountersUnchanged
    /\ UNCHANGED <<handles, calls>>
    /\ IF t.v.err = "TxFailedErr" THEN TxFailed(t)
       ELSE TxReturn(t, errno(t.v.err))

\* The goroutine go r.deleteFile(inode, length, tracking).
deleteFile(eng, ino, length, tracking) ==
    Goroutine(eng, "deleteFile", "scan",
              [inode |-> ino, length |-> length, tracking |-> tracking],
              [todo |-> <<>>, del |-> <<>>, rs |-> <<>>, ret |-> "zrem",
               done |-> "zrem"])

\* -------------------------------------------------------------- mknod
nextInode == IF nextinode + 1 = RootInode THEN nextinode + 2 ELSE nextinode + 1

\* The path every Symlink call of the model gives.
SymPath == <<"t">>

mknodAttr(typ, parent, path) ==
    [(IF typ = TypeDirectory
      THEN NewAttr(typ, 2, RootLength, parent)
      ELSE NewAttr(typ, 1, IF typ = TypeSymlink THEN Len(path) ELSE 0, parent))
     EXCEPT !.Atime = Now, !.Mtime = Now, !.Ctime = Now]

mknodPipe(parent, name, typ, ino, path, pattr) ==
    <<HSet(parent, name, packEntry(typ, ino)),
      Set(parent, Mtimed([pattr EXCEPT !.Nlink = IF typ = TypeDirectory
                                                  THEN Inc32(@) ELSE @])),
      Set(ino, mknodAttr(typ, parent, path))>>
    \o (IF typ = TypeSymlink THEN <<SetSym(ino, path)>>
        ELSE IF typ = TypeFile THEN <<IncrBy("usedSpace", align4K(0))>>
        ELSE <<>>)
    \o <<IncrBy("totalInodes", 1)>>

\* Mknod, Mkdir, Symlink (create = FALSE) and Create (a file, create = TRUE):
\* the inode number is allocated before the transaction.
Mknod(p, parent, name, typ, create) ==
    /\ CanCall(p)
    /\ nextInode <= MaxIno
    /\ nextinode' = nextInode
    /\ threads' = threads \cup
          {NewThread(p, EngineOf(p), "Mknod", "txf",
                     [parent |-> parent, name |-> name, typ |-> typ,
                      create |-> create],
                     [ino |-> nextInode])}
    /\ Called(p)
    /\ StoreUnchanged /\ MemoryUnchanged /\ PlaneUnchanged
    /\ UNCHANGED <<nextchunk, handles, done>>

MknodTxf(t) ==
    /\ t.fn = "Mknod" /\ t.pc = "txf"
    /\ CanLock(t, inodeKey(t.a.parent))
    /\ MemoryUnchanged /\ PlaneUnchanged /\ CountersUnchanged
    /\ UNCHANGED <<handles, calls>>
    /\ IF t.a.parent \notin DOMAIN inode THEN TxReturn(t, "ENOENT")
       ELSE IF inode[t.a.parent].Typ # TypeDirectory THEN TxReturn(t, "ENOTDIR")
       ELSE IF <<t.a.parent, t.a.name>> \in DOMAIN dent THEN TxReturn(t, "EEXIST")
       ELSE /\ threads' = Threads(t,
                 {txn(t, <<inodeKey(t.a.parent), entryKey(t.a.parent)>>, "exec",
                      [pipe |-> mknodPipe(t.a.parent, t.a.name, t.a.typ, t.v.ino,
                                          IF t.a.typ = TypeSymlink
                                          THEN SymPath ELSE <<>>,
                                          inode[t.a.parent])] @@ t.v)}, {}, {})
            /\ StoreUnchanged
            /\ UNCHANGED done

MknodExec(t) ==
    /\ t.fn = "Mknod" /\ t.pc = "exec"
    /\ MemoryUnchanged /\ PlaneUnchanged /\ CountersUnchanged
    /\ UNCHANGED <<handles, calls>>
    /\ IF t.dirty THEN TxFailed(t)
       ELSE LET r == Exec(DB, t.v.pipe) IN
            /\ Commit(r.db)
            /\ IF t.a.create
               THEN /\ threads' = Threads(t, {Unwatched(t, "post")}, {}, r.keys)
                    /\ UNCHANGED done
               ELSE /\ threads' = Threads(t, {}, {}, r.keys)
                    /\ Ret(t, "OK")

\* Create, after Mknod returned 0: r.openFiles[*inode] = 1.
CreatePost(t) ==
    /\ t.fn = "Mknod" /\ t.pc = "post"
    /\ openFiles' = [openFiles EXCEPT ![t.eng] = Put(@, t.v.ino, 1)]
    /\ handles' = [handles EXCEPT ![t.eng] =
                      Put(@, t.v.ino, IF t.v.ino \in DOMAIN @ THEN @[t.v.ino] + 1 ELSE 1)]
    /\ threads' = Threads(t, {}, {}, {})
    /\ Ret(t, "OK")
    /\ StoreUnchanged /\ PlaneUnchanged /\ CountersUnchanged
    /\ UNCHANGED <<removedFiles, compacting, calls>>

\* -------------------------------------------------------------- Rmdir
\* An Rmdir that leaves the link count of the parent as it is.
RmdirPipeKeepNlink(parent, name, ino, pattr) ==
    <<HDel(parent, name),
      Set(parent, Mtimed(pattr)),
      Del(inodeKey(ino)),
      Del(xattrKey(ino)),
      IncrBy("totalInodes", -1)>>

RmdirPipe(parent, name, ino, pattr) ==
    <<HDel(parent, name),
      Set(parent, Mtimed([pattr EXCEPT !.Nlink = Dec32(@)])),
      Del(inodeKey(ino)),
      Del(xattrKey(ino)),
      IncrBy("totalInodes", -1)>>

\* The entry is read outside the transaction; the keys to watch come from it.
Rmdir(p, parent, name) ==
    /\ CanCall(p)
    /\ Called(p)
    /\ StoreUnchanged /\ MemoryUnchanged /\ PlaneUnchanged /\ CountersUnchanged
    /\ UNCHANGED handles
    /\ LET t == NewThread(p, EngineOf(p), "Rmdir", "txf",
                          [parent |-> parent, name |-> name], NoLocals) IN
       IF name = "."
       THEN threads' = threads /\ Ret(t, "EINVAL")
       ELSE IF name = ".."
       THEN threads' = threads /\ Ret(t, "ENOTEMPTY")
       ELSE IF <<parent, name>> \notin DOMAIN dent
       THEN threads' = threads /\ Ret(t, "ENOENT")
       ELSE IF dent[<<parent, name>>].typ # TypeDirectory
       THEN threads' = threads /\ Ret(t, "ENOTDIR")
       ELSE LET ino == dent[<<parent, name>>].ino IN
            /\ threads' = threads \cup
                 {[t EXCEPT !.v = [inode |-> ino,
                                   keys |-> <<inodeKey(parent), entryKey(parent),
                                              inodeKey(ino), entryKey(ino)>>]]}
            /\ UNCHANGED done

RmdirTxf(t) ==
    /\ t.fn = "Rmdir" /\ t.pc = "txf"
    /\ CanLock(t, t.v.keys[1])
    /\ MemoryUnchanged /\ PlaneUnchanged /\ CountersUnchanged
    /\ UNCHANGED <<handles, calls>>
    /\ LET parent == t.a.parent
           e == <<t.a.parent, t.a.name>> IN
       IF parent \notin DOMAIN inode THEN TxReturn(t, "ENOENT")
       ELSE IF inode[parent].Typ # TypeDirectory THEN TxReturn(t, "ENOTDIR")
       ELSE IF e \notin DOMAIN dent THEN TxReturn(t, "ENOENT")
       ELSE IF dent[e].typ # TypeDirectory THEN TxReturn(t, "ENOTDIR")
       ELSE IF HLen(DB, dent[e].ino) > 0 THEN TxReturn(t, "ENOTEMPTY")
       ELSE /\ threads' = Threads(t,
                 {txn(t, t.v.keys, "exec",
                      [pipe |-> RmdirPipe(parent, t.a.name, dent[e].ino,
                                          inode[parent])] @@
                      [t.v EXCEPT !.inode = dent[e].ino])}, {}, {})
            /\ StoreUnchanged
            /\ UNCHANGED done

RmdirExec(t) ==
    /\ t.fn = "Rmdir" /\ t.pc = "exec"
    /\ MemoryUnchanged /\ PlaneUnchanged /\ CountersUnchanged
    /\ UNCHANGED <<handles, calls>>
    /\ IF t.dirty THEN TxFailed(t)
       ELSE LET r == Exec(DB, t.v.pipe) IN
            /\ Commit(r.db)
            /\ threads' = Threads(t, {}, {}, r.keys)
            /\ Ret(t, "OK")

\* -------------------------------------------------------------- Unlink
UnlinkPipe(sid, parent, name, typ, ino, pattr, attr, opened) ==
    <<HDel(parent, name), Set(parent, Mtimed(pattr)), Del(xattrKey(ino))>>
    \o (IF attr.Nlink > 0
        THEN <<Set(ino, attr)>>
        ELSE (CASE typ = TypeSymlink -> <<Del(symKey(ino)), Del(inodeKey(ino))>>
                [] typ = TypeFile ->
                      IF opened
                      THEN <<Set(ino, attr), SAdd(sid, ino)>>
                      ELSE <<ZAdd(toDelete(ino, attr.Length), Now),
                             Del(inodeKey(ino)),
                             IncrBy("usedSpace", -align4K(attr.Length))>>
                [] OTHER -> <<>>)
             \o <<IncrBy("totalInodes", -1)>>)

Unlink(p, parent, name) ==
    /\ CanCall(p)
    /\ Called(p)
    /\ StoreUnchanged /\ MemoryUnchanged /\ PlaneUnchanged /\ CountersUnchanged
    /\ UNCHANGED handles
    /\ LET t == NewThread(p, EngineOf(p), "Unlink", "txf",
                          [parent |-> parent, name |-> name], NoLocals) IN
       IF <<parent, name>> \notin DOMAIN dent
       THEN threads' = threads /\ Ret(t, "ENOENT")
       ELSE IF dent[<<parent, name>>].typ = TypeDirectory
       THEN threads' = threads /\ Ret(t, "EPERM")
       ELSE /\ threads' = threads \cup
                 {[t EXCEPT !.v = [typ |-> dent[<<parent, name>>].typ,
                                   inode |-> dent[<<parent, name>>].ino]]}
            /\ UNCHANGED done

UnlinkTxf(t) ==
    /\ t.fn = "Unlink" /\ t.pc = "txf"
    /\ CanLock(t, entryKey(t.a.parent))
    /\ MemoryUnchanged /\ PlaneUnchanged /\ CountersUnchanged
    /\ UNCHANGED <<handles, calls>>
    /\ LET parent == t.a.parent
           ino == t.v.inode
           e == <<t.a.parent, t.a.name>> IN
       IF parent \notin DOMAIN inode \/ ino \notin DOMAIN inode
       THEN TxReturn(t, "ENOENT")
       ELSE IF inode[parent].Typ # TypeDirectory THEN TxReturn(t, "ENOTDIR")
       ELSE IF e \notin DOMAIN dent THEN TxReturn(t, "ENOENT")
       ELSE IF dent[e] # packEntry(t.v.typ, ino) THEN TxReturn(t, "EAGAIN")
       ELSE LET attr == Ctimed([inode[ino] EXCEPT !.Nlink = Dec32(@)])
                opened == /\ t.v.typ = TypeFile /\ attr.Nlink = 0
                          /\ ino \in DOMAIN openFiles[t.eng]
                          /\ openFiles[t.eng][ino] > 0
            IN  /\ threads' = Threads(t,
                     {txn(t, <<entryKey(parent), inodeKey(parent), inodeKey(ino)>>,
                          "exec",
                          [pipe |-> UnlinkPipe(t.eng, parent, t.a.name, t.v.typ,
                                               ino, inode[parent], attr, opened),
                           attr |-> attr, opened |-> opened] @@ t.v)}, {}, {})
                /\ StoreUnchanged
                /\ UNCHANGED done

\* EXEC; after it a removed file that is open is noted in removedFiles (the
\* step UnlinkPost), one that is not has its chunks deleted by a goroutine.
UnlinkExec(t) ==
    /\ t.fn = "Unlink" /\ t.pc = "exec"
    /\ MemoryUnchanged /\ PlaneUnchanged /\ CountersUnchanged
    /\ UNCHANGED <<handles, calls>>
    /\ IF t.dirty THEN TxFailed(t)
       ELSE LET r == Exec(DB, t.v.pipe) IN
            /\ Commit(r.db)
            /\ IF t.v.typ = TypeFile /\ t.v.attr.Nlink = 0
               THEN IF t.v.opened
                    THEN /\ threads' = Threads(t, {Unwatched(t, "post")}, {}, r.keys)
                         /\ UNCHANGED done
                    ELSE /\ threads' = Threads(t, {},
                              {deleteFile(t.eng, t.v.inode, t.v.attr.Length, NoKey)}, r.keys)
                         /\ Ret(t, "OK")
               ELSE /\ threads' = Threads(t, {}, {}, r.keys)
                    /\ Ret(t, "OK")

UnlinkPost(t) ==
    /\ t.fn = "Unlink" /\ t.pc = "post"
    /\ removedFiles' = [removedFiles EXCEPT ![t.eng] = @ \cup {t.v.inode}]
    /\ threads' = Threads(t, {}, {}, {})
    /\ Ret(t, "OK")
    /\ StoreUnchanged /\ PlaneUnchanged /\ CountersUnchanged
    /\ UNCHANGED <<openFiles, compacting, handles, calls>>

\* -------------------------------------------------------------- Link
LinkPipe(ino, parent, name, pattr, iattr) ==
    <<HSet(parent, name, packEntry(iattr.Typ, ino)),
      Set(parent, Mtimed(pattr)),
      Set(ino, iattr)>>

Link(p, ino, parent, name) ==
    /\ CanCall(p)
    /\ Called(p)
    /\ threads' = threads \cup
          {NewThread(p, EngineOf(p), "Link", "txf",
                     [inode |-> ino, parent |-> parent, name |-> name],
                     NoLocals)}
    /\ StoreUnchanged /\ MemoryUnchanged /\ PlaneUnchanged /\ CountersUnchanged
    /\ UNCHANGED <<handles, done>>

LinkTxf(t) ==
    /\ t.fn = "Link" /\ t.pc = "txf"
    /\ CanLock(t, inodeKey(t.a.inode))
    /\ MemoryUnchanged /\ PlaneUnchanged /\ CountersUnchanged
    /\ UNCHANGED <<handles, calls>>
    /\ LET parent == t.a.parent
           ino == t.a.inode IN
       IF parent \notin DOMAIN inode \/ ino \notin DOMAIN inode
       THEN TxReturn(t, "ENOENT")
       ELSE IF inode[parent].Typ # TypeDirectory THEN TxReturn(t, "ENOTDIR")
       ELSE IF inode[ino].Typ = TypeDirectory THEN TxReturn(t, "EPERM")
       ELSE IF <<parent, t.a.name>> \in DOMAIN dent THEN TxReturn(t, "EEXIST")
       ELSE /\ threads' = Threads(t,
                 {txn(t, <<inodeKey(ino), entryKey(parent), inodeKey(parent)>>,
                      "exec",
                      [pipe |-> LinkPipe(ino, parent, t.a.name, inode[parent],
                                  Ctimed([inode[ino] EXCEPT !.Nlink = Inc32(@)]))]
                      @@ t.v)}, {}, {})
            /\ StoreUnchanged
            /\ UNCHANGED done

LinkExec(t) ==
    /\ t.fn = "Link" /\ t.pc = "exec"
    /\ MemoryUnchanged /\ PlaneUnchanged /\ CountersUnchanged
    /\ UNCHANGED <<handles, calls>>
    /\ IF t.dirty THEN TxFailed(t)
       ELSE LET r == Exec(DB, t.v.pipe) IN
            /\ Commit(r.db)
            /\ threads' = Threads(t, {}, {}, r.keys)
            /\ Ret(t, "OK")

\* -------------------------------------------------------------- Rename
\* A Rename whose pipeline only adds the destination entry.
RenamePipeKeepsSource(sid, parentSrc, nameSrc, parentDst, nameDst, ino, dino, dtyp, buf, sattr, dattr, iattr, tattr, opened) ==
    <<HSet(parentDst, nameDst, buf), Set(ino, iattr)>>

\* The pipeline of the Rename transaction.  dino = 0: no destination entry.
\* sattr and dattr are the parents' attributes as the function holds them
\* before the pipeline is queued; tattr is the replaced inode's.
RenamePipe(sid, parentSrc, nameSrc, parentDst, nameDst, ino, dino, dtyp, buf, sattr, dattr, iattr, tattr, opened) ==
    <<HDel(parentSrc, nameSrc), Set(parentSrc, sattr)>>
    \o (IF dino > 0
        THEN (IF dtyp # TypeDirectory /\ tattr.Nlink > 0
              THEN <<Set(dino, tattr)>>
              ELSE (CASE dtyp = TypeDirectory -> <<Del(inodeKey(dino))>>
                      [] dtyp = TypeSymlink ->
                            <<Del(symKey(dino)), Del(inodeKey(dino))>>
                      [] dtyp = TypeFile ->
                            IF opened
                            THEN <<Set(dino, tattr), SAdd(sid, dino)>>
                            ELSE <<ZAdd(toDelete(dino, dattr.Length), Now),
                                   Del(inodeKey(dino)),
                                   IncrBy("usedSpace", -align4K(tattr.Length))>>
                      [] OTHER -> <<>>)
                   \o <<IncrBy("totalInodes", -1), Del(xattrKey(dino))>>)
             \o <<HDel(parentDst, nameDst)>>
        ELSE <<>>)
    \o <<HSet(parentDst, nameDst, buf)>>
    \o (IF parentDst # parentSrc
        THEN <<Set(parentDst,
                   IF dino > 0 /\ dtyp = TypeDirectory
                   THEN [dattr EXCEPT !.Nlink = Dec32(@)] ELSE dattr)>>
        ELSE <<>>)
    \o <<Set(ino, iattr)>>

ZeroAttr == NewAttr("", 0, 0, 0)

\* The source entry is read outside the transaction.
Rename(p, parentSrc, nameSrc, parentDst, nameDst) ==
    /\ CanCall(p)
    /\ Called(p)
    /\ StoreUnchanged /\ MemoryUnchanged /\ PlaneUnchanged /\ CountersUnchanged
    /\ UNCHANGED handles
    /\ LET t == NewThread(p, EngineOf(p), "Rename", "pre",
                          [parentSrc |-> parentSrc, nameSrc |-> nameSrc,
                           parentDst |-> parentDst, nameDst |-> nameDst],
                          NoLocals) IN
       IF <<parentSrc, nameSrc>> \notin DOMAIN dent
       THEN threads' = threads /\ Ret(t, "ENOENT")
       ELSE IF parentSrc = parentDst /\ nameSrc = nameDst
       THEN threads' = threads /\ Ret(t, "OK")
       ELSE /\ threads' = threads \cup
                 {[t EXCEPT !.v = [typ |-> dent[<<parentSrc, nameSrc>>].typ,
                                   ino |-> dent[<<parentSrc, nameSrc>>].ino]]}
            /\ UNCHANGED done

\* The destination entry is read outside the transaction; the keys to watch.
RenamePre(t) ==
    /\ t.fn = "Rename" /\ t.pc = "pre"
    /\ LET e == <<t.a.parentDst, t.a.nameDst>>
           keys == <<entryKey(t.a.parentSrc), inodeKey(t.a.parentSrc),
                     inodeKey(t.v.ino), entryKey(t.a.parentDst),
                     inodeKey(t.a.parentDst)>>
           dino == IF e \in DOMAIN dent THEN dent[e].ino ELSE 0
           dtyp == IF e \in DOMAIN dent THEN dent[e].typ ELSE ""
       IN  threads' = Threads(t,
              {[t EXCEPT !.pc = "txf",
                         !.v = [dino |-> dino, dtyp |-> dtyp,
                                keys |-> keys
                                   \o (IF dino > 0 THEN <<inodeKey(dino)>> ELSE <<>>)
                                   \o (IF dino > 0 /\ dtyp = TypeDirectory
                                       THEN <<entryKey(dino)>> ELSE <<>>)] @@ @]},
              {}, {})
    /\ StoreUnchanged /\ MemoryUnchanged /\ PlaneUnchanged /\ CountersUnchanged
    /\ UNCHANGED <<handles, calls, done>>

RenameTxf(t) ==
    /\ t.fn = "Rename" /\ t.pc = "txf"
    /\ CanLock(t, t.v.keys[1])
    /\ MemoryUnchanged /\ PlaneUnchanged /\ CountersUnchanged
    /\ UNCHANGED <<handles, calls>>
    /\ LET ps == t.a.parentSrc
           pd == t.a.parentDst
           src == <<t.a.parentSrc, t.a.nameSrc>>
           dst == <<t.a.parentDst, t.a.nameDst>>
           found == dst \in DOMAIN dent
           dino == IF found THEN t.v.dino ELSE 0
           dtyp == t.v.dtyp
           isdir == found /\ dtyp = TypeDirectory
           tattr == IF found /\ ~isdir /\ dino \in DOMAIN inode
                    THEN (IF Dec32(inode[dino].Nlink) > 0
                          THEN Ctimed([inode[dino] EXCEPT !.Nlink = Dec32(@)])
                          ELSE [inode[dino] EXCEPT !.Nlink = Dec32(@)])
                    ELSE ZeroAttr
           opened == /\ found /\ ~isdir /\ tattr.Nlink = 0 /\ dtyp = TypeFile
                     /\ dino \in DOMAIN openFiles[t.eng]
                     /\ openFiles[t.eng][dino] > 0
       IN
       IF found /\ dent[dst] # packEntry(t.v.dtyp, t.v.dino)
       THEN TxReturn(t, "EAGAIN")
       ELSE IF isdir /\ HLen(DB, dino) # 0 THEN TxReturn(t, "ENOTEMPTY")
       ELSE IF found /\ ~isdir /\ dino \notin DOMAIN inode THEN TxReturn(t, "ENOENT")
       ELSE IF src \notin DOMAIN dent THEN TxReturn(t, "ENOENT")
       ELSE IF dent[src].ino # t.v.ino THEN TxReturn(t, "EAGAIN")
       ELSE IF ps \notin DOMAIN inode \/ pd \notin DOMAIN inode
               \/ t.v.ino \notin DOMAIN inode
       THEN TxReturn(t, "ENOENT")
       ELSE IF inode[ps].Typ # TypeDirectory \/ inode[pd].Typ # TypeDirectory
       THEN TxReturn(t, "ENOTDIR")
       ELSE LET moved == t.v.typ = TypeDirectory /\ ps # pd
                sattr == Mtimed([inode[ps] EXCEPT
                                   !.Nlink = IF moved THEN Dec32(@) ELSE @])
                dattr == Mtimed([inode[pd] EXCEPT
                                   !.Nlink = IF moved THEN Inc32(@) ELSE @])
                iattr == Ctimed([inode[t.v.ino] EXCEPT !.Parent = pd])
            IN  /\ threads' = Threads(t,
                     {txn(t, t.v.keys, "exec",
                          [pipe |-> RenamePipe(t.eng, ps, t.a.nameSrc, pd, t.a.nameDst,
                                               t.v.ino, dino, dtyp, dent[src],
                                               sattr, dattr, iattr, tattr, opened),
                           dino |-> dino, opened |-> opened,
                           length |-> dattr.Length] @@ t.v)}, {}, {})
                /\ StoreUnchanged
                /\ UNCHANGED done

\* EXEC; after it a replaced file that is open is noted in removedFiles (the
\* step RenamePost), any other replaced file has its chunks deleted.
RenameExec(t) ==
    /\ t.fn = "Rename" /\ t.pc = "exec"
    /\ MemoryUnchanged /\ PlaneUnchanged /\ CountersUnchanged
    /\ UNCHANGED <<handles, calls>>
    /\ IF t.dirty THEN TxFailed(t)
       ELSE LET r == Exec(DB, t.v.pipe) IN
            /\ Commit(r.db)
            /\ IF t.v.dino > 0 /\ t.v.dtyp = TypeFile
               THEN IF t.v.opened
                    THEN /\ threads' = Threads(t, {Unwatched(t, "post")}, {}, r.keys)
                         /\ UNCHANGED done
                    ELSE /\ threads' = Threads(t, {},
                              {deleteFile(t.eng, t.v.dino, t.v.length, NoKey)}, r.keys)
                         /\ Ret(t, "OK")
               ELSE /\ threads' = Threads(t, {}, {}, r.keys)
                    /\ Ret(t, "OK")

RenamePost(t) ==
    /\ t.fn = "Rename" /\ t.pc = "post"
    /\ removedFiles' = [removedFiles EXCEPT ![t.eng] = @ \cup {t.v.dino}]
    /\ threads' = Threads(t, {}, {}, {})
    /\ Ret(t, "OK")
    /\ StoreUnchanged /\ PlaneUnchanged /\ CountersUnchanged
    /\ UNCHANGED <<openFiles, compacting, handles, calls>>

\* ------------------------------------------- deleteSlice, deleteChunk
\* A thread that has slices to delete keeps them in v.del and the step to
\* go on with afterwards in v.ret.
AfterSlices(t, v) ==
    [Unwatched(t, IF v.del = <<>> THEN v.ret ELSE "ds_msg") EXCEPT !.v = v]

\* deleteSlice: the DeleteChunk message; the data plane may refuse it.
DeleteSliceMsg(t, ok) ==
    /\ t.pc = "ds_msg"
    /\ IF ok
       THEN /\ deleted' = deleted \cup {Head(t.v.del)}
            /\ threads' = Threads(t, {[t EXCEPT !.pc = "ds_del"]}, {}, {})
       ELSE /\ deleted' = deleted
            /\ threads' = Threads(t,
                  {AfterSlices(t, [t.v EXCEPT !.del = Tail(@)])}, {}, {})
    /\ StoreUnchanged /\ MemoryUnchanged /\ CountersUnchanged
    /\ UNCHANGED <<objects, handles, calls, done>>

\* deleteSlice: the message was taken, the refcount key is deleted.
DeleteSliceDel(t) ==
    /\ t.pc = "ds_del"
    /\ LET s == Head(t.v.del)
           r == Apply(DB, Del(sliceKey(s[1], s[2])))
       IN  /\ Commit(r.db)
           /\ threads' = Threads(t,
                 {AfterSlices(t, [t.v EXCEPT !.del = Tail(@)])}, {}, r.keys)
    /\ MemoryUnchanged /\ PlaneUnchanged /\ CountersUnchanged
    /\ UNCHANGED <<handles, calls, done>>

RECURSIVE deleteChunkPipe(_, _, _)
deleteChunkPipe(ino, indx, vals) ==
    IF vals = <<>> THEN <<>>
    ELSE <<LPop(ino, indx), IncrRef(Head(vals).chunkid, Head(vals).size, -1)>>
         \o deleteChunkPipe(ino, indx, Tail(vals))

Zeros(n) == [i \in 1..n |-> 0]

\* The slices of a committed deleteChunk whose reply in rs is negative; rs
\* holds the replies of every attempt, the refused ones first.
ToDelete(slices, rs) ==
    LET idx == {i \in DOMAIN slices : rs[i] < 0}
        F[n \in 0..Len(slices)] ==
            IF n = 0 THEN <<>>
            ELSE IF n \in idx THEN Append(F[n - 1], slices[n]) ELSE F[n - 1]
    IN  F[Len(slices)]

\* deleteChunk of the chunk at the head of v.todo.
DeleteChunkTxf(t) ==
    /\ t.pc = "dc_txf"
    /\ LET ino == t.a.inode
           indx == Head(t.v.todo)
           key == chunkKey(ino, indx)
           vals == LRange(DB, ino, indx, DeleteRange)
       IN  /\ CanLock(t, key)
           /\ threads' = Threads(t,
                 {txn(t, <<key>>, "dc_exec",
                      [pipe |-> deleteChunkPipe(ino, indx, vals),
                       slices |-> [i \in DOMAIN vals |->
                                      <<vals[i].chunkid, vals[i].size>>]]
                      @@ t.v)}, {}, {})
    /\ StoreUnchanged /\ MemoryUnchanged /\ PlaneUnchanged /\ CountersUnchanged
    /\ UNCHANGED <<handles, calls, done>>

DeleteChunkExec(t) ==
    /\ t.pc = "dc_exec"
    /\ MemoryUnchanged /\ PlaneUnchanged /\ CountersUnchanged
    /\ UNCHANGED <<handles, calls, done>>
    /\ IF t.dirty /\ t.v.pipe # <<>>
       THEN /\ StoreUnchanged
            /\ IF t.tries + 1 < TxnRetries
               THEN threads' = Threads(t,
                       {[Restart(t) EXCEPT !.pc = "dc_txf",
                            !.v.rs = @ \o Zeros(Len(t.v.slices))]}, {}, {})
               ELSE threads' = Threads(t, {}, {}, {})
       ELSE LET r == Exec(DB, t.v.pipe)
                rs == t.v.rs \o [i \in DOMAIN t.v.slices |-> r.res[2 * i]]
                more == Len(t.v.slices) >= DeleteRange
                todo == IF more THEN t.v.todo ELSE Tail(t.v.todo)
            IN  /\ Commit(r.db)
                /\ threads' = Threads(t,
                      {AfterSlices(t,
                          [t.v EXCEPT !.del = ToDelete(t.v.slices, rs),
                                      !.rs = <<>>,
                                      !.todo = todo,
                                      !.ret = IF todo = <<>> THEN t.v.done
                                              ELSE "dc_txf"])}, {}, r.keys)

\* ------------------------------------------------------------ deleteFile
\* The chunks of the file below its length that have a log, in order.
ChunksBelow(d, ino, length) ==
    LET n == (length + ChunkSize - 1) \div ChunkSize
        F[i \in 0..n] ==
            IF i = 0 THEN <<>>
            ELSE IF LLen(d, ino, i - 1) > 0 THEN Append(F[i - 1], i - 1)
            ELSE F[i - 1]
    IN  F[n]

DeleteFileScan(t) ==
    /\ t.fn = "deleteFile" /\ t.pc = "scan"
    /\ LET todo == ChunksBelow(DB, t.a.inode, t.a.length) IN
       threads' = Threads(t,
          {[t EXCEPT !.pc = IF todo = <<>> THEN "zrem" ELSE "dc_txf",
                     !.v.todo = todo]}, {}, {})
    /\ StoreUnchanged /\ MemoryUnchanged /\ PlaneUnchanged /\ CountersUnchanged
    /\ UNCHANGED <<handles, calls, done>>

DeleteFileZRem(t) ==
    /\ t.fn = "deleteFile" /\ t.pc = "zrem"
    /\ LET tracking == IF t.a.tracking = NoKey
                       THEN toDelete(t.a.inode, t.a.length) ELSE t.a.tracking
           r == Apply(DB, ZRem(tracking))
       IN  /\ Commit(r.db)
           /\ threads' = Threads(t, {}, {}, r.keys)
    /\ MemoryUnchanged /\ PlaneUnchanged /\ CountersUnchanged
    /\ UNCHANGED <<handles, calls, done>>

\* --------------------------------------------------- cleanupDeletedFiles
Hour == 60
SweepCount == 1000

\* ZRANGEBYSCORE with LIMIT 0 count: the members with min <= score <= max in
\* score order, the first `count` of them; members of one score in any order.
ZRangeByScore(z, min, max, count) ==
    LET P == {m \in DOMAIN z : min <= z[m] /\ z[m] <= max}
        n == IF Cardinality(P) < count THEN Cardinality(P) ELSE count
    IN  {q \in [1..n -> P] :
            /\ \A i, j \in 1..n : i < j => (q[i] # q[j] /\ z[q[i]] <= z[q[j]])
            /\ \A m \in P \ {q[i] : i \in 1..n} : \A i \in 1..n : z[q[i]] <= z[m]}

\* The goroutine NewSession starts.
cleanupDeletedFiles(eng) ==
    Goroutine(eng, "cleanupDeletedFiles", "sleep", NoLocals, [todo |-> <<>>])

\* One round of the sweeper: the range query.
SweepRange(t) ==
    /\ t.fn = "cleanupDeletedFiles" /\ t.pc = "sleep"
    /\ \E todo \in ZRangeByScore(delfiles, 0, Now + Hour, SweepCount) :
          threads' = Threads(t, {[t EXCEPT !.pc = "delete", !.v.todo = todo]}, {}, {})
    /\ StoreUnchanged /\ MemoryUnchanged /\ PlaneUnchanged /\ CountersUnchanged
    /\ UNCHANGED <<handles, calls, done>>

\* deleteFile is called, not started: the next member is taken when the
\* deleteFile of the one before has returned.
SweepDelete(t) ==
    /\ t.fn = "cleanupDeletedFiles" /\ t.pc = "delete"
    /\ ~\E u \in threads : u.fn = "deleteFile" /\ u.eng = t.eng /\ u.a.tracking # NoKey
    /\ threads' =
          IF t.v.todo = <<>>
          THEN Threads(t, {[t EXCEPT !.pc = "sleep"]}, {}, {})
          ELSE LET m == Head(t.v.todo) IN
               Threads(t, {[t EXCEPT !.v.todo = Tail(@)]},
                       {deleteFile(t.eng, m[1], m[2], m)}, {})
    /\ StoreUnchanged /\ MemoryUnchanged /\ PlaneUnchanged /\ CountersUnchanged
    /\ UNCHANGED <<handles, calls, done>>

\* ------------------------------------------------------- Open, Close
Count(f, k) == IF k \in DOMAIN f THEN f[k] ELSE 0

\* Open with attr # nil reads the attribute first (GetAttr answers for the
\* root even when its key is missing); the count is raised in a later step.
Open(p, ino, withAttr) ==
    /\ CanCall(p)
    /\ Called(p)
    /\ LET err == IF withAttr /\ ino \notin DOMAIN inode /\ ino # RootInode
                  THEN "ENOENT" ELSE "OK"
       IN  threads' = threads \cup
              {NewThread(p, EngineOf(p), "Open", "post",
                         [inode |-> ino, withAttr |-> withAttr], [err |-> err])}
    /\ StoreUnchanged /\ MemoryUnchanged /\ PlaneUnchanged /\ CountersUnchanged
    /\ UNCHANGED <<handles, done>>

\* Open returns 0 whatever GetAttr said.
OpenPost(t) ==
    /\ t.fn = "Open" /\ t.pc = "post"
    /\ openFiles' = IF t.v.err = "OK"
                    THEN [openFiles EXCEPT ![t.eng] =
                            Put(@, t.a.inode, Count(@, t.a.inode) + 1)]
                    ELSE openFiles
    /\ handles' = [handles EXCEPT ![t.eng] =
                      Put(@, t.a.inode, Count(@, t.a.inode) + 1)]
    /\ threads' = Threads(t, {}, {}, {})
    /\ Ret(t, "OK")
    /\ StoreUnchanged /\ PlaneUnchanged /\ CountersUnchanged
    /\ UNCHANGED <<removedFiles, compacting, calls>>

\* Close; the whole function runs under r.Lock.
closeInode(p, ino) ==
    /\ CanCall(p)
    /\ Called(p)
    /\ LET eng == EngineOf(p)
           refcnt == Count(openFiles[eng], ino)
           last == refcnt <= 1
           removed == last /\ ino \in removedFiles[eng]
           t == NewThread(p, eng, "Close", "", [inode |-> ino], NoLocals)
       IN  /\ openFiles' = [openFiles EXCEPT ![eng] =
                               IF last THEN Drop(@, ino) ELSE Put(@, ino, refcnt - 1)]
           /\ removedFiles' = [removedFiles EXCEPT ![eng] =
                                  IF removed THEN @ \ {ino} ELSE @]
           /\ threads' = IF removed
                         THEN threads \cup
                              {Goroutine(eng, "deleteInode", "get",
                                         [inode |-> ino], NoLocals)}
                         ELSE threads
           /\ Ret(t, "OK")
    /\ StoreUnchanged /\ PlaneUnchanged /\ CountersUnchanged
    /\ UNCHANGED compacting

\* Close of a handle the caller holds.
Close(p, ino) ==
    /\ Count(handles[EngineOf(p)], ino) > 0
    /\ closeInode(p, ino)
    /\ handles' = [handles EXCEPT ![EngineOf(p)] =
                      IF @[ino] = 1 THEN Drop(@, ino) ELSE Put(@, ino, @[ino] - 1)]

\* Close of a handle the caller has closed before.
CloseClosed(p, ino) ==
    /\ done[p].fn = "Close" /\ done[p].a.inode = ino
    /\ closeInode(p, ino)
    /\ UNCHANGED handles

\* ----------------------------------------------------------- deleteInode
deleteInodePipe(ino, attr) ==
    <<ZAdd(toDelete(ino, attr.Length), Now), Del(inodeKey(ino)),
      IncrBy("usedSpace", -align4K(attr.Length))>>

\* GET of the inode; a missing inode ends deleteInode with no error.
DeleteInodeGet(t) ==
    /\ t.fn = "deleteInode" /\ t.pc = "get"
    /\ threads' = Threads(t,
          {IF t.a.inode \in DOMAIN inode
           THEN [t EXCEPT !.pc = "exec", !.v = [attr |-> inode[t.a.inode]]]
           ELSE [t EXCEPT !.pc = "srem"]}, {}, {})
    /\ StoreUnchanged /\ MemoryUnchanged /\ PlaneUnchanged /\ CountersUnchanged
    /\ UNCHANGED <<handles, calls, done>>

\* MULTI/EXEC with no WATCH, then go r.deleteFile.
DeleteInodeExec(t) ==
    /\ t.fn = "deleteInode" /\ t.pc = "exec"
    /\ LET r == Exec(DB, deleteInodePipe(t.a.inode, t.v.attr)) IN
       /\ Commit(r.db)
       /\ threads' = Threads(t, {[t EXCEPT !.pc = "srem", !.v = NoLocals]},
                             {deleteFile(t.eng, t.a.inode, t.v.attr.Length, NoKey)},
                             r.keys)
    /\ MemoryUnchanged /\ PlaneUnchanged /\ CountersUnchanged
    /\ UNCHANGED <<handles, calls, done>>

\* The goroutine of Close, after deleteInode returned nil.
DeleteInodeSRem(t) ==
    /\ t.fn = "deleteInode" /\ t.pc = "srem"
    /\ LET r == Apply(DB, SRem(t.eng, t.a.inode)) IN
       /\ Commit(r.db)
       /\ threads' = Threads(t, {}, {}, r.keys)
    /\ MemoryUnchanged /\ PlaneUnchanged /\ CountersUnchanged
    /\ UNCHANGED <<handles, calls, done>>

\* ----------------------------------------------------------------- Init
\* The format record: the UUID, the credentials, and one field for every
\* other setting (chunk size, storage endpoint, compression, encryption).
Format(uuid, storage, accessKey, secretKey) ==
    [UUID |-> uuid, Storage |-> storage, AccessKey |-> accessKey,
     SecretKey |-> secretKey]

\* The root inode Init writes.
rootAttr ==
    [NewAttr(TypeDirectory, 2, RootLength, RootInode)
     EXCEPT !.Mode = {"rwx"}, !.Atime = Now, !.Mtime = Now, !.Ctime = Now]

InitFormat(p, format, force) ==
    /\ CanCall(p)
    /\ Called(p)
    /\ threads' = threads \cup
          {NewThread(p, EngineOf(p), "Init", "get",
                     [format |-> format, force |-> force], NoLocals)}
    /\ StoreUnchanged /\ MemoryUnchanged /\ PlaneUnchanged /\ CountersUnchanged
    /\ UNCHANGED <<handles, done>>

\* Get of "setting": without force only the credentials may differ from the
\* stored record, and the UUID of the stored record is kept.
FormatGet(t) ==
    /\ t.fn = "Init" /\ t.pc = "get"
    /\ LET old == setting
           format == IF old # NoFormat /\ ~t.a.force
                     THEN [t.a.format EXCEPT !.UUID = old.UUID]
                     ELSE t.a.format
           differs == /\ old # NoFormat /\ ~t.a.force
                      /\ format # [old EXCEPT !.AccessKey = format.AccessKey,
                                              !.SecretKey = format.SecretKey]
       IN  IF differs
           THEN /\ threads' = Threads(t, {}, {}, {})
                /\ Ret(t, "cannot update format")
           ELSE /\ threads' = Threads(t, {[t EXCEPT !.pc = "set",
                                                    !.v = [format |-> format]]}, {}, {})
                /\ UNCHANGED done
    /\ StoreUnchanged /\ MemoryUnchanged /\ PlaneUnchanged /\ CountersUnchanged
    /\ UNCHANGED <<handles, calls>>

\* Set of "setting".
FormatSet(t) ==
    /\ t.fn = "Init" /\ t.pc = "set"
    /\ setting' = t.v.format
    /\ threads' = Threads(t, {[t EXCEPT !.pc = "root"]}, {}, {})
    /\ FilesUnchanged /\ MemoryUnchanged /\ PlaneUnchanged /\ CountersUnchanged
    /\ UNCHANGED <<sustain, sessions, locks, handles, calls, done>>

\* Set of the root inode, whatever the volume holds.
FormatRoot(t) ==
    /\ t.fn = "Init" /\ t.pc = "root"
    /\ inode' = Put(inode, RootInode, rootAttr)
    /\ threads' = Threads(t, {}, {}, {})
    /\ Ret(t, "OK")
    /\ UNCHANGED <<dent, chunks, refs, sustain, delfiles, sessions, locks, setting,
                   xattrs, symlinks, usedSpace, totalInodes>>
    /\ MemoryUnchanged /\ PlaneUnchanged /\ CountersUnchanged
    /\ UNCHANGED <<handles, calls>>

\* ------------------------------------------------------------- sessions
StaleAge == 10
LockStaleAge == 3
SessionCount == 100

\* The orders in which a reply can list the members of a set.
Orders(S) ==
    {q \in [1..Cardinality(S) -> S] : \A i, j \in DOMAIN q : i < j => q[i] # q[j]}

\* The goroutines of NewSession and of refreshSession.
refreshSession(eng) == Goroutine(eng, "refreshSession", "sleep", NoLocals, NoLocals)
cleanStaleSessions(eng) ==
    Goroutine(eng, "cleanStaleSessions", "stale", NoLocals,
              [todo |-> <<>>, sids |-> {}, keys |-> <<>>, key |-> NoKey,
               owners |-> <<>>])

\* One round of refreshSession: the heartbeat, then go r.cleanStaleSessions().
\* A round of the sweeper ends within the minute the next one is a sleep away.
RefreshSession(t) ==
    /\ t.fn = "refreshSession" /\ t.pc = "sleep"
    /\ ~\E u \in threads : u.fn = "cleanStaleSessions" /\ u.eng = t.eng
    /\ sessions' = Put(sessions, t.eng, Now)
    /\ threads' = Threads(t, {t}, {cleanStaleSessions(t.eng)}, {})
    /\ FilesUnchanged /\ MemoryUnchanged /\ PlaneUnchanged /\ CountersUnchanged
    /\ UNCHANGED <<sustain, locks, setting, handles, calls, done>>

\* ZRangeByScore(allSessions, Max: now - 10 min, Count: 100).
CleanStale(t) ==
    /\ t.fn = "cleanStaleSessions" /\ t.pc = "stale"
    /\ \E todo \in ZRangeByScore(sessions, 0, Now - StaleAge, SessionCount) :
          threads' = Threads(t, {[t EXCEPT !.pc = "lrange", !.v.todo = todo]}, {}, {})
    /\ StoreUnchanged /\ MemoryUnchanged /\ PlaneUnchanged /\ CountersUnchanged
    /\ UNCHANGED <<handles, calls, done>>

\* cleanStaleSession: LRange of the session key.  The key is a set (SAdd in
\* Unlink and Rename), so the command fails with WRONGTYPE when the key
\* exists and answers the empty list when it does not; there is no list of
\* inodes to delete.
CleanLRange(t) ==
    /\ t.fn = "cleanStaleSessions" /\ t.pc = "lrange"
    /\ threads' = Threads(t,
          {IF t.v.todo = <<>> THEN [t EXCEPT !.pc = "stale3"]
           ELSE IF sustain[Head(t.v.todo)] # {} THEN [t EXCEPT !.v.todo = Tail(@)]
           ELSE [t EXCEPT !.pc = "del"]}, {}, {})
    /\ StoreUnchanged /\ MemoryUnchanged /\ PlaneUnchanged /\ CountersUnchanged
    /\ UNCHANGED <<handles, calls, done>>

CleanDel(t) ==
    /\ t.fn = "cleanStaleSessions" /\ t.pc = "del"
    /\ sustain' = [sustain EXCEPT ![Head(t.v.todo)] = {}]
    /\ threads' = Threads(t, {[t EXCEPT !.pc = "zrem"]}, {}, {})
    /\ FilesUnchanged /\ MemoryUnchanged /\ PlaneUnchanged /\ CountersUnchanged
    /\ UNCHANGED <<sessions, locks, setting, handles, calls, done>>

CleanZRem(t) ==
    /\ t.fn = "cleanStaleSessions" /\ t.pc = "zrem"
    /\ sessions' = Drop(sessions, Head(t.v.todo))
    /\ threads' = Threads(t, {[t EXCEPT !.pc = "lrange", !.v.todo = Tail(@)]}, {}, {})
    /\ FilesUnchanged /\ MemoryUnchanged /\ PlaneUnchanged /\ CountersUnchanged
    /\ UNCHANGED <<sustain, locks, setting, handles, calls, done>>

\* ZRangeByScore(allSessions, Max: now - 3 min, Count: 100).
CleanStale3(t) ==
    /\ t.fn = "cleanStaleSessions" /\ t.pc = "stale3"
    /\ \E q \in ZRangeByScore(sessions, 0, Now - LockStaleAge, SessionCount) :
          threads' = Threads(t,
             IF q = <<>> THEN {}
             ELSE {[t EXCEPT !.pc = "scan", !.v.sids = {q[i] : i \in DOMAIN q}]}, {}, {})
    /\ StoreUnchanged /\ MemoryUnchanged /\ PlaneUnchanged /\ CountersUnchanged
    /\ UNCHANGED <<handles, calls, done>>

\* SCAN of lock*.
CleanScan(t) ==
    /\ t.fn = "cleanStaleSessions" /\ t.pc = "scan"
    /\ \E keys \in Orders({l[1] : l \in locks}) :
          threads' = Threads(t, {[t EXCEPT !.pc = "hkeys", !.v.keys = keys]}, {}, {})
    /\ StoreUnchanged /\ MemoryUnchanged /\ PlaneUnchanged /\ CountersUnchanged
    /\ UNCHANGED <<handles, calls, done>>

\* HKeys of the next lock key: the owners whose session id is stale.
CleanHKeys(t) ==
    /\ t.fn = "cleanStaleSessions" /\ t.pc = "hkeys"
    /\ IF t.v.keys = <<>> THEN threads' = Threads(t, {}, {}, {})
       ELSE LET k == Head(t.v.keys) IN
            \E owners \in Orders({<<l[2], l[3]>> : l \in {x \in locks :
                                     x[1] = k /\ x[2] \in t.v.sids}}) :
               threads' = Threads(t,
                  {[t EXCEPT !.pc = "hdel", !.v.keys = Tail(@), !.v.key = k,
                             !.v.owners = owners]}, {}, {})
    /\ StoreUnchanged /\ MemoryUnchanged /\ PlaneUnchanged /\ CountersUnchanged
    /\ UNCHANGED <<handles, calls, done>>

CleanHDel(t) ==
    /\ t.fn = "cleanStaleSessions" /\ t.pc = "hdel"
    /\ IF t.v.owners = <<>>
       THEN /\ threads' = Threads(t, {[t EXCEPT !.pc = "hkeys"]}, {}, {})
            /\ UNCHANGED locks
       ELSE LET o == Head(t.v.owners) IN
            /\ locks' = locks \ {<<t.v.key, o[1], o[2]>>}
            /\ threads' = Threads(t, {[t EXCEPT !.v.owners = Tail(@)]}, {}, {})
    /\ FilesUnchanged /\ MemoryUnchanged /\ PlaneUnchanged /\ CountersUnchanged
    /\ UNCHANGED <<sustain, sessions, setting, handles, calls, done>>

\* ------------------------------------------------------------- Truncate
\* A slice record of a chunk log.
Record(pos, chunkid, size, off, len) ==
    [pos |-> pos, chunkid |-> chunkid, size |-> size, off |-> off, len |-> len]

\* RPushX of a whole-chunk hole to the chunks strictly between the old and
\* the new last chunk.
\* A Truncate that leaves the chunks in between as they are.
zeroChunksNone(ino, i, last) == <<>>

RECURSIVE zeroChunks(_, _, _)
zeroChunks(ino, i, last) ==
    IF i >= last THEN <<>>
    ELSE <<RPushX(ino, i, Record(0, 0, 0, 0, ChunkSize))>>
         \o zeroChunks(ino, i + 1, last)

\* The same for a long grow: RPushX to the chunks in between that SCAN finds.
RECURSIVE scanChunks(_, _)
scanChunks(ino, found) ==
    IF found = {} THEN <<>>
    ELSE LET i == CHOOSE x \in found : TRUE
         IN  <<RPushX(ino, i, Record(0, 0, 0, 0, ChunkSize))>>
             \o scanChunks(ino, found \ {i})

TruncatePipe(ino, t, old, length) ==
    <<Set(ino, Mtimed([t EXCEPT !.Length = length]))>>
    \o (IF length > old
        THEN <<RPush(ino, old \div ChunkSize,
                     Record(old % ChunkSize, 0, 0, 0,
                            IF length > ((old \div ChunkSize) + 1) * ChunkSize
                            THEN ChunkSize - (old % ChunkSize)
                            ELSE length - old))>>
             \o (IF (length - old) \div ChunkSize >= ScanRange
                 THEN scanChunks(ino, {k[2] : k \in {c \in DOMAIN chunks :
                                          /\ c[1] = ino
                                          /\ c[2] > old \div ChunkSize
                                          /\ c[2] < length \div ChunkSize}})
                 ELSE zeroChunks(ino, (old \div ChunkSize) + 1, length \div ChunkSize))
             \o (IF length > ((old \div ChunkSize) + 1) * ChunkSize
                    /\ length % ChunkSize > 0
                 THEN <<RPush(ino, length \div ChunkSize,
                              Record(0, 0, 0, 0, length % ChunkSize))>>
                 ELSE <<>>)
        ELSE <<>>)
    \o <<IncrBy("usedSpace", align4K(length) - align4K(old))>>

Truncate(p, ino, length) ==
    /\ CanCall(p)
    /\ Called(p)
    /\ threads' = threads \cup
          {NewThread(p, EngineOf(p), "Truncate", "txf",
                     [inode |-> ino, length |-> length], NoLocals)}
    /\ StoreUnchanged /\ MemoryUnchanged /\ PlaneUnchanged /\ CountersUnchanged
    /\ UNCHANGED <<handles, done>>

TruncateTxf(t) ==
    /\ t.fn = "Truncate" /\ t.pc = "txf"
    /\ CanLock(t, inodeKey(t.a.inode))
    /\ MemoryUnchanged /\ PlaneUnchanged /\ CountersUnchanged
    /\ UNCHANGED <<handles, calls>>
    /\ IF t.a.inode \notin DOMAIN inode THEN TxReturn(t, "ENOENT")
       ELSE IF inode[t.a.inode].Typ # TypeFile THEN TxReturn(t, "EPERM")
       ELSE /\ threads' = Threads(t,
                 {txn(t, <<inodeKey(t.a.inode)>>, "exec",
                      [pipe |-> TruncatePipe(t.a.inode, inode[t.a.inode],
                                             inode[t.a.inode].Length, t.a.length)])},
                 {}, {})
            /\ StoreUnchanged
            /\ UNCHANGED done

TruncateExec(t) ==
    /\ t.fn = "Truncate" /\ t.pc = "exec"
    /\ MemoryUnchanged /\ PlaneUnchanged /\ CountersUnchanged
    /\ UNCHANGED <<handles, calls>>
    /\ IF t.dirty THEN TxFailed(t)
       ELSE LET r == Exec(DB, t.v.pipe) IN
            /\ Commit(r.db)
            /\ threads' = Threads(t, {}, {}, r.keys)
            /\ Ret(t, "OK")

\* ------------------------------------------------------------- Fallocate
\* The checks of mode and size made before the transaction.
fallocErrno(mode, size) ==
    IF "CollapseRange" \in mode /\ mode # {"CollapseRange"} THEN "EINVAL"
    ELSE IF "InsertRange" \in mode /\ mode # {"InsertRange"} THEN "EINVAL"
    ELSE IF mode = {"InsertRange"} \/ mode = {"CollapseRange"} THEN "ENOTSUP"
    ELSE IF "PunchHole" \in mode /\ "KeepSize" \notin mode THEN "EINVAL"
    ELSE IF size = 0 THEN "EINVAL"
    ELSE "OK"

\* One hole record per chunk of [off, off + size).
RECURSIVE fallocHoles(_, _, _)
fallocHoles(ino, off, size) ==
    IF size <= 0 THEN <<>>
    ELSE LET coff == off % ChunkSize
             l == IF coff + size > ChunkSize THEN ChunkSize - coff ELSE size
         IN  <<RPush(ino, off \div ChunkSize, Record(coff, 0, 0, 0, l))>>
             \o fallocHoles(ino, off + l, size - l)

\* size = old - off is unsigned: it wraps when off is beyond the old length.
FallocatePipe(ino, t, mode, off, size) ==
    LET old == t.Length
        length == IF off + size > old /\ "KeepSize" \notin mode THEN off + size ELSE old
        zeroed == IF off + size <= old THEN size
                  ELSE IF off <= old THEN old - off
                  ELSE ((old - off) + MaxUint32) + 1
    IN  <<Set(ino, Ctimed([t EXCEPT !.Length = length]))>>
        \o (IF mode \cap {"ZeroRange", "PunchHole"} # {}
            THEN fallocHoles(ino, off, zeroed) ELSE <<>>)
        \o <<IncrBy("usedSpace", align4K(length) - align4K(old))>>

\* off and size are parameters of Fallocate that the pipeline function
\* assigns (size = old - off, off += l, size -= l): a run of the transaction
\* function after a refused EXEC starts from the values the run before left.
fallocArg(t, f) == IF f \in DOMAIN t.v THEN t.v[f] ELSE t.a[f]

Fallocate(p, ino, mode, off, size) ==
    /\ CanCall(p)
    /\ Called(p)
    /\ LET t == NewThread(p, EngineOf(p), "Fallocate", "txf",
                          [inode |-> ino, mode |-> mode, off |-> off, size |-> size],
                          NoLocals)
       IN  IF fallocErrno(mode, size) # "OK"
           THEN UNCHANGED threads /\ Ret(t, fallocErrno(mode, size))
           ELSE threads' = threads \cup {t} /\ UNCHANGED done
    /\ StoreUnchanged /\ MemoryUnchanged /\ PlaneUnchanged /\ CountersUnchanged
    /\ UNCHANGED handles

\* The transaction function. With off beyond the old length the unsigned
\* size = old - off wraps to more than 2^63, and the loop queues one RPush
\* for each chunk of it (2^37 and more): the call stays in the loop, pc
\* "loop", with the local lock held.
FallocateTxf(t) ==
    /\ t.fn = "Fallocate" /\ t.pc = "txf"
    /\ CanLock(t, inodeKey(t.a.inode))
    /\ MemoryUnchanged /\ PlaneUnchanged /\ CountersUnchanged
    /\ UNCHANGED <<handles, calls>>
    /\ IF t.a.inode \notin DOMAIN inode THEN TxReturn(t, "ENOENT")
       ELSE IF inode[t.a.inode].Typ # TypeFile THEN TxReturn(t, "EPERM")
       ELSE LET off == fallocArg(t, "off")
                size == fallocArg(t, "size")
                old == inode[t.a.inode].Length
                zero == t.a.mode \cap {"ZeroRange", "PunchHole"} # {}
                left == IF off + size > old THEN old - off ELSE size
            IN  /\ threads' = Threads(t,
                      {IF zero /\ left < 0
                       THEN txn(t, <<inodeKey(t.a.inode)>>, "loop", t.v)
                       ELSE txn(t, <<inodeKey(t.a.inode)>>, "exec",
                                [pipe |-> FallocatePipe(t.a.inode, inode[t.a.inode],
                                                        t.a.mode, off, size),
                                 off |-> IF zero THEN off + left ELSE off,
                                 size |-> IF zero THEN 0 ELSE size])},
                      {}, {})
                /\ StoreUnchanged
                /\ UNCHANGED done

FallocateExec(t) ==
    /\ t.fn = "Fallocate" /\ t.pc = "exec"
    /\ MemoryUnchanged /\ PlaneUnchanged /\ CountersUnchanged
    /\ UNCHANGED <<handles, calls>>
    /\ IF t.dirty THEN TxFailed(t)
       ELSE LET r == Exec(DB, t.v.pipe) IN
            /\ Commit(r.db)
            /\ threads' = Threads(t, {}, {}, r.keys)
            /\ Ret(t, "OK")

\* --------------------------------------------------------------- SetAttr
\* The attributes SetAttr stores: cur as read, set the flags, attr, uid and
\* gid the caller's attributes and identity. 06000 is {"S_ISUID", "S_ISGID"},
\* 01777 and 05777 are what is left without both and without S_ISGID.
setAttr(cur, set, attr, uid, gid) ==
    LET owner == set \cap {"UID", "GID"} # {}
        kept == IF owner /\ "Mode" \in set
                THEN attr.Mode \cup (cur.Mode \cap {"S_ISUID", "S_ISGID"})
                ELSE attr.Mode
        clear == cur.Mode \cap {"S_ISUID", "S_ISGID"} # {} /\ owner
        curMode == IF clear THEN cur.Mode \ {"S_ISUID", "S_ISGID"} ELSE cur.Mode
        mode == IF clear THEN kept \ {"S_ISUID", "S_ISGID"} ELSE kept
        newUid == IF "UID" \in set THEN attr.Uid ELSE cur.Uid
        newGid == IF "GID" \in set THEN attr.Gid ELSE cur.Gid
    IN  [cur EXCEPT
           !.Uid = newUid,
           !.Gid = newGid,
           !.Mode = IF "Mode" \in set
                    THEN (IF uid # 0 /\ "S_ISGID" \in mode /\ gid # newGid
                          THEN mode \ {"S_ISGID"} ELSE mode)
                    ELSE curMode,
           !.Atime = IF "AtimeNow" \in set THEN Now
                     ELSE IF "Atime" \in set THEN attr.Atime ELSE @,
           !.Mtime = IF "MtimeNow" \in set THEN Now
                     ELSE IF "Mtime" \in set THEN attr.Mtime ELSE @,
           !.Ctime = Now]

SetAttr(p, ino, set, attr, uid, gid) ==
    /\ CanCall(p)
    /\ Called(p)
    /\ threads' = threads \cup
          {NewThread(p, EngineOf(p), "SetAttr", "txf",
                     [inode |-> ino, set |-> set, attr |-> attr, uid |-> uid, gid |-> gid],
                     NoLocals)}
    /\ StoreUnchanged /\ MemoryUnchanged /\ PlaneUnchanged /\ CountersUnchanged
    /\ UNCHANGED <<handles, done>>

SetAttrTxf(t) ==
    /\ t.fn = "SetAttr" /\ t.pc = "txf"
    /\ CanLock(t, inodeKey(t.a.inode))
    /\ MemoryUnchanged /\ PlaneUnchanged /\ CountersUnchanged
    /\ UNCHANGED <<handles, calls>>
    /\ IF t.a.inode \notin DOMAIN inode THEN TxReturn(t, "ENOENT")
       ELSE /\ threads' = Threads(t,
                 {txn(t, <<inodeKey(t.a.inode)>>, "exec",
                      [pipe |-> <<Set(t.a.inode,
                                      setAttr(inode[t.a.inode], t.a.set, t.a.attr,
                                              t.a.uid, t.a.gid))>>])},
                 {}, {})
            /\ StoreUnchanged
            /\ UNCHANGED done

SetAttrExec(t) ==
    /\ t.fn = "SetAttr" /\ t.pc = "exec"
    /\ MemoryUnchanged /\ PlaneUnchanged /\ CountersUnchanged
    /\ UNCHANGED <<handles, calls>>
    /\ IF t.dirty THEN TxFailed(t)
       ELSE LET r == Exec(DB, t.v.pipe) IN
            /\ Commit(r.db)
            /\ threads' = Threads(t, {}, {}, r.keys)
            /\ Ret(t, "OK")

\* ------------------------------------------------------- NewChunk, Write
\* The goroutine go r.compactChunk(inode, indx).
compactChunk(eng, ino, indx) ==
    Goroutine(eng, "compactChunk", "begin", [inode |-> ino, indx |-> indx], NoLocals)

\* A Write that stores the end of the slice as the length.
WritePipeSetsLength(ino, indx, off, slice, attr, newleng) ==
    <<RPush(ino, indx, Record(off, slice.Chunkid, slice.Size, slice.Off, slice.Len)),
      Set(ino, Mtimed([attr EXCEPT !.Length = newleng]))>>
    \o (IF newleng > attr.Length /\ align4K(newleng) - align4K(attr.Length) > 0
        THEN <<IncrBy("usedSpace", align4K(newleng) - align4K(attr.Length))>>
        ELSE <<>>)

WritePipe(ino, indx, off, slice, attr, newleng) ==
    <<RPush(ino, indx, Record(off, slice.Chunkid, slice.Size, slice.Off, slice.Len)),
      Set(ino, Mtimed([attr EXCEPT !.Length = IF newleng > @ THEN newleng ELSE @]))>>
    \o (IF newleng > attr.Length /\ align4K(newleng) - align4K(attr.Length) > 0
        THEN <<IncrBy("usedSpace", align4K(newleng) - align4K(attr.Length))>>
        ELSE <<>>)

\* A writer takes a chunk id with NewChunk, stores len units of data under it
\* and calls Write with the slice.
NewChunk(p, ino, indx, off, len) ==
    /\ CanCall(p)
    /\ Called(p)
    /\ nextchunk < MaxChunkId
    /\ nextchunk' = nextchunk + 1
    /\ threads' = threads \cup
          {NewThread(p, EngineOf(p), "Write", "txf",
                     [inode |-> ino, indx |-> indx, off |-> off,
                      slice |-> [Chunkid |-> nextchunk + 1, Size |-> len,
                                 Off |-> 0, Len |-> len]], NoLocals)}
    /\ StoreUnchanged /\ MemoryUnchanged /\ PlaneUnchanged
    /\ UNCHANGED <<nextinode, handles, done>>

WriteTxf(t) ==
    /\ t.fn = "Write" /\ t.pc = "txf"
    /\ CanLock(t, inodeKey(t.a.inode))
    /\ MemoryUnchanged /\ PlaneUnchanged /\ CountersUnchanged
    /\ UNCHANGED <<handles, calls>>
    /\ IF t.a.inode \notin DOMAIN inode THEN TxReturn(t, "ENOENT")
       ELSE /\ threads' = Threads(t,
                 {txn(t, <<inodeKey(t.a.inode)>>, "exec",
                      [pipe |-> WritePipe(t.a.inode, t.a.indx, t.a.off, t.a.slice,
                                          inode[t.a.inode],
                                          t.a.indx * ChunkSize + t.a.off + t.a.slice.Len)])},
                 {}, {})
            /\ StoreUnchanged
            /\ UNCHANGED done

\* EXEC; every 20th record of a log starts a compaction.
WriteExec(t) ==
    /\ t.fn = "Write" /\ t.pc = "exec"
    /\ MemoryUnchanged /\ PlaneUnchanged /\ CountersUnchanged
    /\ UNCHANGED <<handles, calls>>
    /\ IF t.dirty THEN TxFailed(t)
       ELSE LET r == Exec(DB, t.v.pipe) IN
            /\ Commit(r.db)
            /\ threads' = Threads(t, {},
                  IF r.res[1] % WriteCompactPeriod = 0
                  THEN {compactChunk(t.eng, t.a.inode, t.a.indx)} ELSE {},
                  r.keys)
            /\ Ret(t, "OK")

\* ------------------------------------------------------ buildSlice, Read
Slice(chunkid, size, off, len) ==
    [Chunkid |-> chunkid, Size |-> size, Off |-> off, Len |-> len]

\* The tree of slices: no tree is <<>>, a tree is one node with the slice s
\* and two trees.
Node(s, left, right) == <<[s |-> s, left |-> left, right |-> right]>>

\* slice.cut: the tree split at pos, the slice that holds pos cut in two.
RECURSIVE cut(_, _)
cut(t, pos) ==
    IF t = <<>> THEN <<<<>>, <<>>>>
    ELSE LET s == t[1].s IN
         IF pos <= s.pos
         THEN LET c == cut(t[1].left, pos)
              IN  <<c[1], Node(s, c[2], t[1].right)>>
         ELSE IF pos < s.pos + s.len
         THEN LET l == pos - s.pos
              IN  <<Node([s EXCEPT !.len = l], t[1].left, <<>>),
                    Node([s EXCEPT !.pos = pos, !.off = @ + l, !.len = @ - l],
                         <<>>, t[1].right)>>
         ELSE LET c == cut(t[1].right, pos)
              IN  <<Node(s, t[1].left, c[1]), c[2]>>

\* slice.visit: the slices of the tree from left to right.
RECURSIVE visit(_)
visit(t) ==
    IF t = <<>> THEN <<>>
    ELSE visit(t[1].left) \o <<t[1].s>> \o visit(t[1].right)

\* A buildSlice that lists the slices of the last record only.
buildSliceLast(ss) ==
    IF ss = <<>> THEN <<>>
    ELSE LET s == ss[Len(ss)]
         IN  (IF s.pos > 0 THEN <<Slice(0, s.pos, 0, s.pos)>> ELSE <<>>)
             \o <<Slice(s.chunkid, s.size, s.off, s.len)>>

\* buildSlice: every record in turn becomes the root, over what is left of
\* the tree before its position and after its end; the slices of the tree
\* are then listed in order, a hole slice before each one that starts after
\* the end of the one before.
buildSlice(ss) ==
    LET root[n \in 0..Len(ss)] ==
            IF n = 0 THEN <<>>
            ELSE LET s == ss[n]
                     c == cut(root[n - 1], s.pos)
                 IN  Node(s, c[1], cut(c[2], s.pos + s.len)[2])
        vs == visit(root[Len(ss)])
        F[n \in 0..Len(vs)] ==
            IF n = 0 THEN [pos |-> 0, chunks |-> <<>>]
            ELSE LET s == vs[n]
                     gap == s.pos > F[n - 1].pos
                     hole == IF gap
                             THEN <<Slice(0, s.pos - F[n - 1].pos, 0, s.pos - F[n - 1].pos)>>
                             ELSE <<>>
                 IN  [pos |-> (IF gap THEN s.pos ELSE F[n - 1].pos) + s.len,
                      chunks |-> F[n - 1].chunks \o hole
                                 \o <<Slice(s.chunkid, s.size, s.off, s.len)>>]
    IN  F[Len(vs)].chunks

\* Read: the resolved slices of the chunk, buildSlice(vals), go to the
\* caller (kept with the call when reply is set); a log of 5 records or more
\* starts a compaction.
ReadChunks(p, ino, indx, reply) ==
    /\ CanCall(p)
    /\ Called(p)
    /\ LET vals == LRange(DB, ino, indx, ReadRange)
           a == [inode |-> ino, indx |-> indx]
           t == NewThread(p, EngineOf(p), "Read", "",
                          IF reply
                          THEN [inode |-> ino, indx |-> indx, chunks |-> buildSlice(vals)]
                          ELSE a,
                          NoLocals)
       IN  /\ threads' = IF Len(vals) >= ReadCompactThreshold
                         THEN threads \cup {compactChunk(EngineOf(p), ino, indx)}
                         ELSE threads
           /\ Ret(t, "OK")
    /\ StoreUnchanged /\ MemoryUnchanged /\ PlaneUnchanged /\ CountersUnchanged
    /\ UNCHANGED handles

Read(p, ino, indx) == ReadChunks(p, ino, indx, FALSE)

\* ---------------------------------------------------------- compactChunk
\* The unit of data at offset off of chunk chunkid: a compacted chunk holds
\* what the CompactChunk message stored in it, chunk 0 holds zeros.
Unit(obj, chunkid, off) ==
    IF chunkid = 0 THEN <<0, 0>>
    ELSE IF chunkid \in DOMAIN obj
    THEN IF off + 1 \in DOMAIN obj[chunkid] THEN obj[chunkid][off + 1] ELSE <<0, 0>>
    ELSE <<chunkid, off>>

\* The CompactChunk message: the data of the slices, one after the other.
RECURSIVE Coalesce(_, _)
Coalesce(obj, slices) ==
    IF slices = <<>> THEN <<>>
    ELSE [i \in 1..Head(slices).Len |->
             Unit(obj, Head(slices).Chunkid, Head(slices).Off + i - 1)]
         \o Coalesce(obj, Tail(slices))

RECURSIVE TotalLen(_)
TotalLen(slices) ==
    IF slices = <<>> THEN 0 ELSE Head(slices).Len + TotalLen(Tail(slices))

compactPipe(ino, indx, vals, chunkid, size) ==
    <<LTrim(ino, indx, Len(vals)),
      LPush(ino, indx, Record(0, chunkid, size, 0, size)),
      IncrRef(chunkid, size, 0)>>
    \o [i \in DOMAIN vals |-> IncrRef(vals[i].chunkid, vals[i].size, -1)]

\* One compaction of a chunk at a time on an engine, and no new one while
\* more than 10 run.
CompactBegin(t) ==
    /\ t.fn = "compactChunk" /\ t.pc = "begin"
    /\ LET k == <<t.a.inode, t.a.indx>> IN
       IF Cardinality(compacting[t.eng]) > MaxCompacting \/ k \in compacting[t.eng]
       THEN /\ threads' = Threads(t, {}, {}, {})
            /\ UNCHANGED compacting
       ELSE /\ threads' = Threads(t, {[t EXCEPT !.pc = "lrange"]}, {}, {})
            /\ compacting' = [compacting EXCEPT ![t.eng] = @ \cup {k}]
    /\ StoreUnchanged /\ PlaneUnchanged /\ CountersUnchanged
    /\ UNCHANGED <<openFiles, removedFiles, handles, calls, done>>

CompactLRange(t) ==
    /\ t.fn = "compactChunk" /\ t.pc = "lrange"
    /\ threads' = Threads(t,
          {[t EXCEPT !.pc = "msg",
                     !.v = [vals |-> LRange(DB, t.a.inode, t.a.indx, CompactRange)]]},
          {}, {})
    /\ StoreUnchanged /\ MemoryUnchanged /\ PlaneUnchanged /\ CountersUnchanged
    /\ UNCHANGED <<handles, calls, done>>

\* The new chunk id and the CompactChunk message, which the data plane may
\* refuse.
CompactMsg(t, ok) ==
    /\ t.fn = "compactChunk" /\ t.pc = "msg"
    /\ nextchunk < MaxChunkId
    /\ nextchunk' = nextchunk + 1
    /\ LET chunkid == nextchunk + 1
           slices == buildSlice(t.v.vals)
       IN  IF ok
           THEN /\ objects' = Put(objects, chunkid, Coalesce(objects, slices))
                /\ threads' = Threads(t,
                      {[t EXCEPT !.pc = "txf",
                                 !.v = [chunkid |-> chunkid,
                                        size |-> TotalLen(slices)] @@ t.v]}, {}, {})
           ELSE /\ objects' = objects
                /\ threads' = Threads(t, {[t EXCEPT !.pc = "end"]}, {}, {})
    /\ StoreUnchanged /\ MemoryUnchanged
    /\ UNCHANGED <<nextinode, deleted, handles, calls, done>>

\* The transaction function: EINVAL unless the log still starts with vals.
CompactTxf(t) ==
    /\ t.fn = "compactChunk" /\ t.pc = "txf"
    /\ LET key == chunkKey(t.a.inode, t.a.indx)
           vals2 == LRange(DB, t.a.inode, t.a.indx, Len(t.v.vals) - 1)
       IN  /\ CanLock(t, key)
           /\ threads' = Threads(t,
                 {IF vals2 # t.v.vals
                  THEN Unwatched(t, "einval")
                  ELSE txn(t, <<key>>, "pipe",
                           [pipe |-> compactPipe(t.a.inode, t.a.indx, t.v.vals,
                                                 t.v.chunkid, t.v.size),
                            rs |-> <<>>] @@ t.v)}, {}, {})
    /\ StoreUnchanged /\ MemoryUnchanged /\ PlaneUnchanged /\ CountersUnchanged
    /\ UNCHANGED <<handles, calls, done>>

\* tx.Pipelined is a plain pipeline: its commands are applied one by one,
\* with no MULTI/EXEC around them, and no watched key refuses them.
CompactPipelined(t) ==
    /\ t.fn = "compactChunk" /\ t.pc = "pipe"
    /\ LET r == Apply(DB, Head(t.v.pipe))
           rs == Append(t.v.rs, r.val)
           slices == [i \in DOMAIN t.v.vals |->
                         <<t.v.vals[i].chunkid, t.v.vals[i].size>>]
       IN  /\ Commit(r.db)
           /\ threads' = Threads(t,
                 {IF Len(t.v.pipe) > 1
                  THEN [t EXCEPT !.v.pipe = Tail(@), !.v.rs = rs]
                  ELSE AfterSlices(t,
                          [del |-> ToDelete(slices, SubSeq(rs, 4, Len(rs))),
                           ret |-> "llen"] @@ t.v)}, {}, r.keys)
    /\ MemoryUnchanged /\ PlaneUnchanged /\ CountersUnchanged
    /\ UNCHANGED <<handles, calls, done>>

\* EINVAL: the new chunk is released.
CompactEinval(t) ==
    /\ t.fn = "compactChunk" /\ t.pc = "einval"
    /\ LET r == Apply(DB, IncrRef(t.v.chunkid, t.v.size, -1)) IN
       /\ Commit(r.db)
       /\ threads' = Threads(t,
             {AfterSlices(t, [del |-> <<<<t.v.chunkid, t.v.size>>>>,
                              ret |-> "end"] @@ t.v)}, {}, r.keys)
    /\ MemoryUnchanged /\ PlaneUnchanged /\ CountersUnchanged
    /\ UNCHANGED <<handles, calls, done>>

\* After a compaction: a log of more than 5 records is compacted again.
CompactLLen(t) ==
    /\ t.fn = "compactChunk" /\ t.pc = "llen"
    /\ threads' = Threads(t, {[t EXCEPT !.pc = "end"]},
          IF LLen(DB, t.a.inode, t.a.indx) > RecompactThreshold
          THEN {compactChunk(t.eng, t.a.inode, t.a.indx)} ELSE {}, {})
    /\ StoreUnchanged /\ MemoryUnchanged /\ PlaneUnchanged /\ CountersUnchanged
    /\ UNCHANGED <<handles, calls, done>>

\* The deferred delete(r.compacting, k).
CompactEnd(t) ==
    /\ t.fn = "compactChunk" /\ t.pc = "end"
    /\ compacting' = [compacting EXCEPT ![t.eng] = @ \ {<<t.a.inode, t.a.indx>>}]
    /\ threads' = Threads(t, {}, {}, {})
    /\ StoreUnchanged /\ PlaneUnchanged /\ CountersUnchanged
    /\ UNCHANGED <<openFiles, removedFiles, handles, calls, done>>

\* --------------------------------------------------------- CopyFileRange
\* The records and refcount increments of one resolved slice s of the source
\* chunk at coff, pos units into the chunk.  The cut at the end of the range
\* computes uint32(offIn + size - end) with end beyond offIn + size, which
\* wraps below zero: subtracting it adds end - (offIn + size) to s.Len.
copySlice(fout, offIn, offOut, size, coff, pos0, s0) ==
    IF ~(coff + pos0 < offIn + size /\ coff + pos0 + s0.Len > offIn) THEN <<>>
    ELSE LET front == IF coff + pos0 < offIn THEN offIn - coff - pos0 ELSE 0
             pos == pos0 + front
             s1 == [s0 EXCEPT !.Off = @ + front, !.Len = @ - front]
             over == coff + pos + s1.Len - (offIn + size)
             s == IF over > 0 THEN [s1 EXCEPT !.Len = @ + over] ELSE s1
             doff == coff + pos - offIn + offOut
             indx == doff \div ChunkSize
             dpos == doff % ChunkSize
             skip == ChunkSize - dpos
             incr == IF s.Chunkid > 0
                     THEN <<IncrRef(s.Chunkid, s.Size, 1)>> ELSE <<>>
         IN  IF dpos + s.Len > ChunkSize
             THEN <<RPush(fout, indx, Record(dpos, s.Chunkid, s.Size, s.Off, skip))>>
                  \o incr
                  \o <<RPush(fout, indx + 1,
                             Record(0, s.Chunkid, s.Size, s.Off + skip, s.Len - skip))>>
                  \o incr
             ELSE <<RPush(fout, indx, Record(dpos, s.Chunkid, s.Size, s.Off, s.Len))>>
                  \o incr

\* The slices of one source chunk, over a zero chunk for the holes.
copyChunk(fout, offIn, offOut, size, coff, sv) ==
    LET cs == buildSlice(<<Record(0, 0, 0, 0, ChunkSize)>> \o sv)
        F[i \in 0..Len(cs)] ==
            IF i = 0 THEN <<>>
            ELSE F[i - 1] \o copySlice(fout, offIn, offOut, size, coff,
                                       TotalLen(SubSeq(cs, 1, i - 1)), cs[i])
    IN  F[Len(cs)]

copyPipe(fout, offIn, offOut, size, vals, attr, added) ==
    LET coff == (offIn \div ChunkSize) * ChunkSize
        F[j \in 0..Len(vals)] ==
            IF j = 0 THEN <<>>
            ELSE F[j - 1] \o copyChunk(fout, offIn, offOut, size,
                                       coff + (j - 1) * ChunkSize, vals[j])
    IN  F[Len(vals)] \o <<Set(fout, attr)>>
        \o (IF added > 0 THEN <<IncrBy("usedSpace", added)>> ELSE <<>>)

CopyFileRange(p, fin, offIn, fout, offOut, size) ==
    /\ CanCall(p)
    /\ Called(p)
    /\ threads' = threads \cup
          {NewThread(p, EngineOf(p), "CopyFileRange", "txf",
                     [fin |-> fin, offIn |-> offIn, fout |-> fout,
                      offOut |-> offOut, size |-> size], NoLocals)}
    /\ StoreUnchanged /\ MemoryUnchanged /\ PlaneUnchanged /\ CountersUnchanged
    /\ UNCHANGED <<handles, done>>

\* The transaction function up to the reads of the source logs.
CopyTxf(t) ==
    /\ t.fn = "CopyFileRange" /\ t.pc = "txf"
    /\ CanLock(t, inodeKey(t.a.fout))
    /\ MemoryUnchanged /\ PlaneUnchanged /\ CountersUnchanged
    /\ UNCHANGED <<handles, calls>>
    /\ IF t.a.fin \notin DOMAIN inode \/ t.a.fout \notin DOMAIN inode
       THEN TxReturn(t, "ENOENT")
       ELSE IF inode[t.a.fin].Typ # TypeFile THEN TxReturn(t, "EINVAL")
       ELSE IF t.a.offIn >= inode[t.a.fin].Length THEN TxReturn(t, "OK")
       ELSE IF inode[t.a.fout].Typ # TypeFile THEN TxReturn(t, "EINVAL")
       ELSE LET sattr == inode[t.a.fin]
                attr == inode[t.a.fout]
                size == IF t.a.offIn + t.a.size > sattr.Length
                        THEN sattr.Length - t.a.offIn ELSE t.a.size
                newleng == t.a.offOut + size
                added == IF newleng > attr.Length
                         THEN align4K(newleng) - align4K(attr.Length) ELSE 0
                first == t.a.offIn \div ChunkSize
                last == (t.a.offIn + size) \div ChunkSize
                vals == [j \in 1..(last - first + 1) |->
                            LRange(DB, t.a.fin, first + j - 1, ReadRange)]
            IN  /\ threads' = Threads(t,
                      {txn(t, <<inodeKey(t.a.fout), inodeKey(t.a.fin)>>, "pipe",
                           [pipe |-> copyPipe(t.a.fout, t.a.offIn, t.a.offOut, size,
                                              vals,
                                              Mtimed([attr EXCEPT !.Length =
                                                  IF newleng > @ THEN newleng ELSE @]),
                                              added)])}, {}, {})
                /\ StoreUnchanged
                /\ UNCHANGED done

\* tx.Pipelined: the commands are applied one by one.
CopyPipelined(t) ==
    /\ t.fn = "CopyFileRange" /\ t.pc = "pipe"
    /\ MemoryUnchanged /\ PlaneUnchanged /\ CountersUnchanged
    /\ UNCHANGED <<handles, calls>>
    /\ LET r == Apply(DB, Head(t.v.pipe)) IN
       /\ Commit(r.db)
       /\ IF Len(t.v.pipe) > 1
          THEN /\ threads' = Threads(t, {[t EXCEPT !.v.pipe = Tail(@)]}, {}, r.keys)
               /\ UNCHANGED done
          ELSE /\ threads' = Threads(t, {}, {}, r.keys)
               /\ Ret(t, "OK")

\* ------------------------------------------------------- specification
\* The volume after Init: the root directory only; no client has a session
\* member, an open file or a running call.
Init ==
    /\ inode = [i \in {RootInode} |-> NewAttr(TypeDirectory, 2, RootLength, RootInode)]
    /\ dent = Empty
    /\ chunks = Empty
    /\ refs = Empty
    /\ sustain = [e \in Engines |-> {}]
    /\ delfiles = Empty
    /\ sessions = Empty
    /\ locks = {}
    /\ setting = NoFormat
    /\ xattrs = Empty
    /\ symlinks = {}
    /\ usedSpace = 0
    /\ totalInodes = 0
    /\ nextinode = 0
    /\ nextchunk = 0
    /\ openFiles = [e \in Engines |-> Empty]
    /\ removedFiles = [e \in Engines |-> {}]
    /\ compacting = [e \in Engines |-> {}]
    /\ objects = Empty
    /\ deleted = {}
    /\ handles = [e \in Engines |-> Empty]
    /\ threads = {}
    /\ calls = 0
    /\ done = [p \in Procs |-> [fn |-> "", errno |-> "", a |-> NoLocals]]

\* The callers (the kernel through FUSE) never ask to move a directory into
\* itself.
IntoItself(parentSrc, nameSrc, parentDst) ==
    /\ <<parentSrc, nameSrc>> \in DOMAIN dent
    /\ dent[<<parentSrc, nameSrc>>].ino = parentDst

\* The inodes a caller can name: those it finds by Lookup and those it holds
\* a handle of.
Known(p) == {dent[e].ino : e \in DOMAIN dent} \cup DOMAIN handles[EngineOf(p)]

\* Directory operations of two clients.
DirProcs == {"p1", "p2"}
DirTypes == {TypeDirectory, TypeFile}

Next ==
    \/ \E p \in DirProcs, parent \in Inos, name \in Names, typ \in DirTypes :
          Mknod(p, parent, name, typ, FALSE)
    \/ \E p \in DirProcs, parent \in Inos, name \in Names : Rmdir(p, parent, name)
    \/ \E p \in DirProcs, parent \in Inos, name \in Names : Unlink(p, parent, name)
    \/ \E p \in DirProcs, parent \in Inos, name \in Names, pd \in Inos, nd \in Names :
          /\ ~IntoItself(parent, name, pd)
          /\ Rename(p, parent, name, pd, nd)
    \/ \E t \in threads : MknodTxf(t)
    \/ \E t \in threads : MknodExec(t)
    \/ \E t \in threads : RmdirTxf(t)
    \/ \E t \in threads : RmdirExec(t)
    \/ \E t \in threads : UnlinkTxf(t)
    \/ \E t \in threads : UnlinkExec(t)
    \/ \E t \in threads : RenamePre(t)
    \/ \E t \in threads : RenameTxf(t)
    \/ \E t \in threads : RenameExec(t)
    \/ \E t \in threads : DeleteFileScan(t)
    \/ \E t \in threads : DeleteFileZRem(t)

Spec == Init /\ [][Next]_vars

\* Two clients rename the same entry: the volume holds a directory P (the
\* root, or a directory of the root) with one entry "a"; each of two callers,
\* on two engines or on one, renames (P, "a") once, to a name of its own.
RaceTypes == {TypeFile, TypeDirectory, TypeSymlink}
RaceDest(p) == IF p = "p1" THEN "b" ELSE "c"

\* The volume after Mkdir(1, "d") (when sub) and Mknod/Mkdir/Symlink(P, "a").
RaceVolume(sub, typ) ==
    LET P == IF sub THEN 2 ELSE RootInode
        X == P + 1
        root == NewAttr(TypeDirectory, 2, RootLength, RootInode)
        dirs == (IF sub THEN 1 ELSE 0) + (IF typ = TypeDirectory /\ ~sub THEN 1 ELSE 0)
    IN  [inode |->
            (IF sub
             THEN Put(Empty, 2, NewAttr(TypeDirectory,
                                        IF typ = TypeDirectory THEN 3 ELSE 2,
                                        RootLength, RootInode))
             ELSE Empty)
            @@ Put(Put(Empty, RootInode, [root EXCEPT !.Nlink = 2 + dirs]),
                   X, mknodAttr(typ, P, SymPath)),
         dent |->
            (IF sub THEN Put(Empty, <<RootInode, "d">>, packEntry(TypeDirectory, 2))
             ELSE Empty)
            @@ Put(Empty, <<P, "a">>, packEntry(typ, X)),
         symlinks |-> IF typ = TypeSymlink THEN {X} ELSE {},
         nextinode |-> X]

RaceInit ==
    \E sub \in BOOLEAN, typ \in RaceTypes :
        LET d == RaceVolume(sub, typ) IN
        /\ inode = d.inode
        /\ dent = d.dent
        /\ symlinks = d.symlinks
        /\ nextinode = d.nextinode
        /\ totalInodes = d.nextinode - 1
        /\ chunks = Empty
        /\ refs = Empty
        /\ sustain = [e \in Engines |-> {}]
        /\ delfiles = Empty
        /\ sessions = Empty
        /\ locks = {}
        /\ setting = NoFormat
        /\ xattrs = Empty
        /\ usedSpace = 0
        /\ nextchunk = 0
        /\ openFiles = [e \in Engines |-> Empty]
        /\ removedFiles = [e \in Engines |-> {}]
        /\ compacting = [e \in Engines |-> {}]
        /\ objects = Empty
        /\ deleted = {}
        /\ handles = [e \in Engines |-> Empty]
        /\ threads = {}
        /\ calls = 0
        /\ done = [p \in Procs |-> [fn |-> "", errno |-> "", a |-> NoLocals]]

\* The renamed inode is the last one made; a Rename inside P keeps its parent.
RaceInode == nextinode
RaceParent == inode[RaceInode].Parent
Fresh(p) == Idle(p) /\ done[p].fn = ""

RaceCall ==
    \E p \in Procs :
        /\ Fresh(p)
        /\ \A q \in Procs \ {p} : RaceDest(q) = RaceDest(p) => Fresh(q)
        /\ Rename(p, RaceParent, "a", RaceParent, RaceDest(p))

RaceNext ==
    \/ RaceCall
    \/ \E t \in threads : RenamePre(t)
    \/ \E t \in threads : RenameTxf(t)
    \/ \E t \in threads : RenameExec(t)

RaceSpec == RaceInit /\ [][RaceNext]_vars

\* Open files: the volume after Create(1, "a") by the first caller, which
\* holds the handle; three callers, two of them on the first engine, create,
\* open, close, link, unlink and rename files of the root.
HandleInit ==
    /\ inode = Put(Put(Empty, RootInode, NewAttr(TypeDirectory, 2, RootLength, RootInode)),
                   2, mknodAttr(TypeFile, RootInode, <<>>))
    /\ dent = Put(Empty, <<RootInode, "a">>, packEntry(TypeFile, 2))
    /\ chunks = Empty
    /\ refs = Empty
    /\ sustain = [e \in Engines |-> {}]
    /\ delfiles = Empty
    /\ sessions = Empty
    /\ locks = {}
    /\ setting = NoFormat
    /\ xattrs = Empty
    /\ symlinks = {}
    /\ usedSpace = 0
    /\ totalInodes = 1
    /\ nextinode = 2
    /\ nextchunk = 0
    /\ openFiles = [e \in Engines |-> IF e = 1 THEN Put(Empty, 2, 1) ELSE Empty]
    /\ removedFiles = [e \in Engines |-> {}]
    /\ compacting = [e \in Engines |-> {}]
    /\ objects = Empty
    /\ deleted = {}
    /\ handles = [e \in Engines |-> IF e = 1 THEN Put(Empty, 2, 1) ELSE Empty]
    /\ threads = {}
    /\ calls = 0
    /\ done = [p \in Procs |-> [fn |-> "", errno |-> "", a |-> NoLocals]]

HandleNext ==
    \/ \E p \in Procs, name \in Names : Mknod(p, RootInode, name, TypeFile, TRUE)
    \/ \E p \in Procs : \E ino \in Known(p), withAttr \in BOOLEAN : Open(p, ino, withAttr)
    \/ \E p \in Procs : \E ino \in Known(p) : Close(p, ino)
    \/ \E p \in Procs, name \in Names : Unlink(p, RootInode, name)
    \/ \E p \in Procs, name \in Names : \E ino \in Known(p) : Link(p, ino, RootInode, name)
    \/ \E p \in Procs, name \in Names, nd \in Names :
          Rename(p, RootInode, name, RootInode, nd)
    \/ \E t \in threads : MknodTxf(t)
    \/ \E t \in threads : MknodExec(t)
    \/ \E t \in threads : CreatePost(t)
    \/ \E t \in threads : OpenPost(t)
    \/ \E t \in threads : UnlinkTxf(t)
    \/ \E t \in threads : UnlinkExec(t)
    \/ \E t \in threads : UnlinkPost(t)
    \/ \E t \in threads : LinkTxf(t)
    \/ \E t \in threads : LinkExec(t)
    \/ \E t \in threads : RenamePre(t)
    \/ \E t \in threads : RenameTxf(t)
    \/ \E t \in threads : RenameExec(t)
    \/ \E t \in threads : RenamePost(t)
    \/ \E t \in threads : DeleteInodeGet(t)
    \/ \E t \in threads : DeleteInodeExec(t)
    \/ \E t \in threads : DeleteInodeSRem(t)
    \/ \E t \in threads : DeleteFileScan(t)
    \/ \E t \in threads : DeleteFileZRem(t)

HandleSpec == HandleInit /\ [][HandleNext]_vars

\* File data: the volume after Mknod(1, "a") of a file; two callers write
\* slices to its two first chunks, truncate it and unlink it.
FileInit ==
    /\ inode = Put(Put(Empty, RootInode, NewAttr(TypeDirectory, 2, RootLength, RootInode)),
                   2, mknodAttr(TypeFile, RootInode, <<>>))
    /\ dent = Put(Empty, <<RootInode, "a">>, packEntry(TypeFile, 2))
    /\ chunks = Empty
    /\ refs = Empty
    /\ sustain = [e \in Engines |-> {}]
    /\ delfiles = Empty
    /\ sessions = Empty
    /\ locks = {}
    /\ setting = NoFormat
    /\ xattrs = Empty
    /\ symlinks = {}
    /\ usedSpace = 0
    /\ totalInodes = 1
    /\ nextinode = 2
    /\ nextchunk = 0
    /\ openFiles = [e \in Engines |-> Empty]
    /\ removedFiles = [e \in Engines |-> {}]
    /\ compacting = [e \in Engines |-> {}]
    /\ objects = Empty
    /\ deleted = {}
    /\ handles = [e \in Engines |-> Empty]
    /\ threads = {}
    /\ calls = 0
    /\ done = [p \in Procs |-> [fn |-> "", errno |-> "", a |-> NoLocals]]

FileProcs == {"p1", "p2"}
WriteOffsets == {0, PageSize}
WriteLens == {1, PageSize}
TruncateLengths == {0, 1, ChunkSize + 1}

FileNext ==
    \/ \E p \in FileProcs, indx \in Indexes, off \in WriteOffsets, len \in WriteLens :
          \E ino \in Known(p) : NewChunk(p, ino, indx, off, len)
    \/ \E p \in FileProcs, length \in TruncateLengths :
          \E ino \in Known(p) : Truncate(p, ino, length)
    \/ \E p \in FileProcs, name \in Names : Unlink(p, RootInode, name)
    \/ \E t \in threads : WriteTxf(t)
    \/ \E t \in threads : WriteExec(t)
    \/ \E t \in threads : TruncateTxf(t)
    \/ \E t \in threads : TruncateExec(t)
    \/ \E t \in threads : UnlinkTxf(t)
    \/ \E t \in threads : UnlinkExec(t)
    \/ \E t \in threads : DeleteFileScan(t)
    \/ \E t \in threads : DeleteChunkTxf(t)
    \/ \E t \in threads : DeleteChunkExec(t)
    \/ \E t \in threads, ok \in BOOLEAN : DeleteSliceMsg(t, ok)
    \/ \E t \in threads : DeleteSliceDel(t)
    \/ \E t \in threads : DeleteFileZRem(t)

FileSpec == FileInit /\ [][FileNext]_vars

\* Slices: a file of five writes in its first chunk and an empty file.  The
\* data plane takes every DeleteChunk message.
SliceLog ==
    <<Record(0, 1, PageSize, 0, PageSize), Record(PageSize, 2, PageSize, 0, PageSize),
      Record(1, 3, PageSize, 0, PageSize), Record(0, 4, 1, 0, 1),
      Record(ChunkSize - 1, 5, 1, 0, 1)>>

SliceInit ==
    /\ inode = Put(Put(Put(Empty, RootInode,
                           NewAttr(TypeDirectory, 2, RootLength, RootInode)),
                       2, NewAttr(TypeFile, 1, ChunkSize, RootInode)),
                   3, mknodAttr(TypeFile, RootInode, <<>>))
    /\ dent = Put(Put(Empty, <<RootInode, "a">>, packEntry(TypeFile, 2)),
                  <<RootInode, "b">>, packEntry(TypeFile, 3))
    /\ chunks = Put(Empty, <<2, 0>>, SliceLog)
    /\ refs = Empty
    /\ sustain = [e \in Engines |-> {}]
    /\ delfiles = Empty
    /\ sessions = Empty
    /\ locks = {}
    /\ setting = NoFormat
    /\ xattrs = Empty
    /\ symlinks = {}
    /\ usedSpace = align4K(ChunkSize)
    /\ totalInodes = 2
    /\ nextinode = 3
    /\ nextchunk = Len(SliceLog)
    /\ openFiles = [e \in Engines |-> Empty]
    /\ removedFiles = [e \in Engines |-> {}]
    /\ compacting = [e \in Engines |-> {}]
    /\ objects = Empty
    /\ deleted = {}
    /\ handles = [e \in Engines |-> Empty]
    /\ threads = {}
    /\ calls = 0
    /\ done = [p \in Procs |-> [fn |-> "", errno |-> "", a |-> NoLocals]]

\* Sweeps: a file a client removed two hours ago and died before its chunks
\* were deleted, a file a client removes now, and the sweeper of another
\* client.
SweepInit ==
    /\ inode = Put(Put(Empty, RootInode,
                       NewAttr(TypeDirectory, 2, RootLength, RootInode)),
                   2, NewAttr(TypeFile, 1, PageSize, RootInode))
    /\ dent = Put(Empty, <<RootInode, "a">>, packEntry(TypeFile, 2))
    /\ chunks = Put(Put(Empty, <<2, 0>>, <<Record(0, 1, PageSize, 0, PageSize)>>),
                    <<3, 0>>, <<Record(0, 2, PageSize, 0, PageSize)>>)
    /\ refs = Empty
    /\ sustain = [e \in Engines |-> {}]
    /\ delfiles = Put(Empty, toDelete(3, PageSize), Now - 2 * Hour)
    /\ sessions = Empty
    /\ locks = {}
    /\ setting = NoFormat
    /\ xattrs = Empty
    /\ symlinks = {}
    /\ usedSpace = align4K(PageSize)
    /\ totalInodes = 2
    /\ nextinode = 3
    /\ nextchunk = 2
    /\ openFiles = [e \in Engines |-> Empty]
    /\ removedFiles = [e \in Engines |-> {}]
    /\ compacting = [e \in Engines |-> {}]
    /\ objects = Empty
    /\ deleted = {}
    /\ handles = [e \in Engines |-> Empty]
    /\ threads = {cleanupDeletedFiles(2)}
    /\ calls = 0
    /\ done = [p \in Procs |-> [fn |-> "", errno |-> "", a |-> NoLocals]]

SweepNext ==
    \/ Fresh("p1") /\ Unlink("p1", RootInode, "a")
    \/ \E t \in threads : UnlinkTxf(t)
    \/ \E t \in threads : UnlinkExec(t)
    \/ \E t \in threads : SweepRange(t)
    \/ \E t \in threads : SweepDelete(t)
    \/ \E t \in threads : DeleteFileScan(t)
    \/ \E t \in threads : DeleteChunkTxf(t)
    \/ \E t \in threads : DeleteChunkExec(t)
    \/ \E t \in threads, ok \in BOOLEAN : DeleteSliceMsg(t, ok)
    \/ \E t \in threads : DeleteSliceDel(t)
    \/ \E t \in threads : DeleteFileZRem(t)

SweepSpec == SweepInit /\ [][SweepNext]_vars

\* Sessions: session 1 last sent a heartbeat some minutes ago, or never; it
\* may hold an unlinked file open (inode 3) and it holds a lock on file "a".
\* Its client is running late or is gone.  The client of session 2 holds "a"
\* open and a lock on it, removes and closes it, and runs its sweepers.
Heartbeats == {Now - StaleAge - 1, Now - LockStaleAge - 2, Now - 1}
flockKey(ino) == <<"lockf", ino>>

SessInit ==
    \E sustained \in BOOLEAN, beat \in BOOLEAN, hb \in Heartbeats, alive \in BOOLEAN :
    /\ inode = LET base == Put(Put(Empty, RootInode,
                                   NewAttr(TypeDirectory, 2, RootLength, RootInode)),
                               2, NewAttr(TypeFile, 1, PageSize, RootInode))
               IN  IF sustained
                   THEN Put(base, 3, NewAttr(TypeFile, 0, PageSize, RootInode))
                   ELSE base
    /\ dent = Put(Empty, <<RootInode, "a">>, packEntry(TypeFile, 2))
    /\ chunks = IF sustained
                THEN Put(Empty, <<3, 0>>, <<Record(0, 1, PageSize, 0, PageSize)>>)
                ELSE Empty
    /\ refs = Empty
    /\ sustain = [e \in Engines |-> IF e = 1 /\ sustained THEN {3} ELSE {}]
    /\ delfiles = Empty
    /\ sessions = IF beat THEN Put(Put(Empty, 1, hb), 2, Now - 1)
                  ELSE Put(Empty, 2, Now - 1)
    /\ locks = {<<flockKey(2), 1, 1>>, <<flockKey(2), 2, 1>>}
    /\ setting = NoFormat
    /\ xattrs = Empty
    /\ symlinks = {}
    /\ usedSpace = align4K(PageSize) + (IF sustained THEN align4K(PageSize) ELSE 0)
    /\ totalInodes = 2
    /\ nextinode = 3
    /\ nextchunk = 1
    /\ openFiles = [e \in Engines |-> IF e = 2 THEN Put(Empty, 2, 1) ELSE Empty]
    /\ removedFiles = [e \in Engines |-> {}]
    /\ compacting = [e \in Engines |-> {}]
    /\ objects = Empty
    /\ deleted = {}
    /\ handles = [e \in Engines |-> IF e = 2 THEN Put(Empty, 2, 1) ELSE Empty]
    /\ threads = {refreshSession(2)} \cup (IF alive THEN {refreshSession(1)} ELSE {})
    /\ calls = 0
    /\ done = [p \in Procs |-> [fn |-> "", errno |-> "", a |-> NoLocals]]

SessNext ==
    \/ Fresh("p2") /\ Unlink("p2", RootInode, "a")
    \/ Close("p2", 2)
    \/ \E t \in threads : UnlinkTxf(t)
    \/ \E t \in threads : UnlinkExec(t)
    \/ \E t \in threads : UnlinkPost(t)
    \/ \E t \in threads : DeleteInodeGet(t)
    \/ \E t \in threads : DeleteInodeExec(t)
    \/ \E t \in threads : DeleteInodeSRem(t)
    \/ \E t \in threads : DeleteFileScan(t)
    \/ \E t \in threads : DeleteFileZRem(t)
    \/ \E t \in threads : RefreshSession(t)
    \/ \E t \in threads : CleanStale(t)
    \/ \E t \in threads : CleanLRange(t)
    \/ \E t \in threads : CleanDel(t)
    \/ \E t \in threads : CleanZRem(t)
    \/ \E t \in threads : CleanStale3(t)
    \/ \E t \in threads : CleanScan(t)
    \/ \E t \in threads : CleanHKeys(t)
    \/ \E t \in threads : CleanHDel(t)

SessSpec == SessInit /\ [][SessNext]_vars

\* The sweepers of a running client take their steps.
SessFair ==
    /\ WF_vars(\E t \in threads : RefreshSession(t))
    /\ WF_vars(\E t \in threads : CleanStale(t))
    /\ WF_vars(\E t \in threads : CleanLRange(t))
    /\ WF_vars(\E t \in threads : CleanDel(t))
    /\ WF_vars(\E t \in threads : CleanZRem(t))
    /\ WF_vars(\E t \in threads : CleanStale3(t))
    /\ WF_vars(\E t \in threads : CleanScan(t))
    /\ WF_vars(\E t \in threads : CleanHKeys(t))
    /\ WF_vars(\E t \in threads : CleanHDel(t))
    /\ WF_vars(\E t \in threads : DeleteInodeGet(t))
    /\ WF_vars(\E t \in threads : DeleteInodeExec(t))
    /\ WF_vars(\E t \in threads : DeleteInodeSRem(t))
    /\ WF_vars(\E t \in threads : DeleteFileScan(t))
    /\ WF_vars(\E t \in threads : DeleteFileZRem(t))

SessLiveSpec == SessSpec /\ SessFair

\* Handles: the volume after Create(1, "a") by the first caller, which holds
\* the handle; two callers of the first client open the file, close it, close
\* it again and unlink it.
CloseProcs == {"p1", "p3"}

CloseNext ==
    \/ \E p \in CloseProcs, withAttr \in BOOLEAN : Open(p, 2, withAttr)
    \/ \E p \in CloseProcs : Close(p, 2)
    \/ \E p \in CloseProcs : CloseClosed(p, 2)
    \/ \E p \in CloseProcs : Unlink(p, RootInode, "a")
    \/ \E t \in threads : OpenPost(t)
    \/ \E t \in threads : UnlinkTxf(t)
    \/ \E t \in threads : UnlinkExec(t)
    \/ \E t \in threads : UnlinkPost(t)
    \/ \E t \in threads : DeleteInodeGet(t)
    \/ \E t \in threads : DeleteInodeExec(t)
    \/ \E t \in threads : DeleteInodeSRem(t)
    \/ \E t \in threads : DeleteFileScan(t)
    \/ \E t \in threads : DeleteFileZRem(t)

CloseSpec == HandleInit /\ [][CloseNext]_vars

\* Compactions in progress: a file of eleven chunks that Truncate extended
\* five times, so that every chunk log is five holes; ten compactions of the
\* first client, of the chunks 0 to 9, wait for the reply to their LRange.
\* Two callers of that client read the chunks 9 and 10.
Stalled == 0..(MaxCompacting - 1)
BusyIndexes == {MaxCompacting - 1, MaxCompacting}

BusyInit ==
    /\ inode = Put(Put(Empty, RootInode,
                       NewAttr(TypeDirectory, 2, RootLength, RootInode)),
                   2, NewAttr(TypeFile, 1, (MaxCompacting + 1) * ChunkSize, RootInode))
    /\ dent = Put(Empty, <<RootInode, "a">>, packEntry(TypeFile, 2))
    /\ chunks = [k \in {2} \X (0..MaxCompacting) |->
                    [i \in 1..ReadCompactThreshold |-> Record(0, 0, 0, 0, ChunkSize)]]
    /\ refs = Empty
    /\ sustain = [e \in Engines |-> {}]
    /\ delfiles = Empty
    /\ sessions = Empty
    /\ locks = {}
    /\ setting = NoFormat
    /\ xattrs = Empty
    /\ symlinks = {}
    /\ usedSpace = align4K((MaxCompacting + 1) * ChunkSize)
    /\ totalInodes = 2
    /\ nextinode = 2
    /\ nextchunk = 0
    /\ openFiles = [e \in Engines |-> Empty]
    /\ removedFiles = [e \in Engines |-> {}]
    /\ compacting = [e \in Engines |-> IF e = 1 THEN {2} \X Stalled ELSE {}]
    /\ objects = Empty
    /\ deleted = {}
    /\ handles = [e \in Engines |-> Empty]
    /\ threads = {[compactChunk(1, 2, i) EXCEPT !.pc = "lrange"] : i \in Stalled}
    /\ calls = 0
    /\ done = [p \in Procs |-> [fn |-> "", errno |-> "", a |-> NoLocals]]

BusyNext ==
    \/ \E p \in {"p1", "p3"}, indx \in BusyIndexes : Fresh(p) /\ Read(p, 2, indx)
    \/ \E t \in threads : CompactBegin(t)
    \/ \E t \in threads : t.a.indx \notin Stalled /\ CompactLRange(t)
    \/ \E t \in threads, ok \in BOOLEAN : CompactMsg(t, ok)
    \/ \E t \in threads : CompactTxf(t)
    \/ \E t \in threads : CompactPipelined(t)
    \/ \E t \in threads : CompactLLen(t)
    \/ \E t \in threads : CompactEnd(t)
    \/ \E t \in threads : DeleteSliceMsg(t, TRUE)
    \/ \E t \in threads : DeleteSliceDel(t)

BusySpec == BusyInit /\ [][BusyNext]_vars

\* Formats: a formatted volume whose root has the directory "d" and a mode
\* that SetAttr gave it; a caller formats it again, with and without force.
Formats == {Format(u, s, a, k) : u \in {"u1", "u2"}, s \in {"s1", "s2"},
                                 a \in {"a1", "a2"}, k \in {"k1", "k2"}}

FormatInit ==
    /\ inode = Put(Put(Empty, RootInode,
                       [NewAttr(TypeDirectory, 3, RootLength, RootInode)
                        EXCEPT !.Mode = {"S_ISGID", "rwx"}]),
                   2, [NewAttr(TypeDirectory, 2, RootLength, RootInode)
                       EXCEPT !.Mode = {"rwx"}])
    /\ dent = Put(Empty, <<RootInode, "d">>, packEntry(TypeDirectory, 2))
    /\ chunks = Empty
    /\ refs = Empty
    /\ sustain = [e \in Engines |-> {}]
    /\ delfiles = Empty
    /\ sessions = Empty
    /\ locks = {}
    /\ setting = Format("u1", "s1", "a1", "k1")
    /\ xattrs = Empty
    /\ symlinks = {}
    /\ usedSpace = align4K(RootLength)
    /\ totalInodes = 1
    /\ nextinode = 2
    /\ nextchunk = 0
    /\ openFiles = [e \in Engines |-> Empty]
    /\ removedFiles = [e \in Engines |-> {}]
    /\ compacting = [e \in Engines |-> {}]
    /\ objects = Empty
    /\ deleted = {}
    /\ handles = [e \in Engines |-> Empty]
    /\ threads = {}
    /\ calls = 0
    /\ done = [p \in Procs |-> [fn |-> "", errno |-> "", a |-> NoLocals]]

FormatNext ==
    \/ \E format \in Formats, force \in BOOLEAN : InitFormat("p1", format, force)
    \/ \E t \in threads : FormatGet(t)
    \/ \E t \in threads : FormatSet(t)
    \/ \E t \in threads : FormatRoot(t)

FormatSpec == FormatInit /\ [][FormatNext]_vars

\* Pairs: a volume whose root has the directory "a"; one caller makes a node
\* in the root or in "a", then a second caller removes a directory, then a
\* third removes one.
PairInode ==
    Put(Put(Empty, RootInode, NewAttr(TypeDirectory, 3, RootLength, RootInode)),
        2, NewAttr(TypeDirectory, 2, RootLength, RootInode))
PairDent == Put(Empty, <<RootInode, "a">>, packEntry(TypeDirectory, 2))
PairParents == {RootInode, 2}

PairInit ==
    /\ inode = PairInode
    /\ dent = PairDent
    /\ chunks = Empty
    /\ refs = Empty
    /\ sustain = [e \in Engines |-> {}]
    /\ delfiles = Empty
    /\ sessions = Empty
    /\ locks = {}
    /\ setting = NoFormat
    /\ xattrs = Empty
    /\ symlinks = {}
    /\ usedSpace = 0
    /\ totalInodes = 1
    /\ nextinode = 2
    /\ nextchunk = 0
    /\ openFiles = [e \in Engines |-> Empty]
    /\ removedFiles = [e \in Engines |-> {}]
    /\ compacting = [e \in Engines |-> {}]
    /\ objects = Empty
    /\ deleted = {}
    /\ handles = [e \in Engines |-> Empty]
    /\ threads = {}
    /\ calls = 0
    /\ done = [p \in Procs |-> [fn |-> "", errno |-> "", a |-> NoLocals]]

PairNext ==
    \/ \E parent \in PairParents, name \in Names, typ \in {TypeDirectory, TypeFile} :
          Fresh("p1") /\ Mknod("p1", parent, name, typ, FALSE)
    \/ \E parent \in PairParents, name \in Names :
          Fresh("p3") /\ Idle("p1") /\ done["p1"].fn # "" /\ Rmdir("p3", parent, name)
    \/ \E parent \in PairParents, name \in Names :
          Fresh("p2") /\ Idle("p3") /\ done["p3"].fn # "" /\ Rmdir("p2", parent, name)
    \/ \E t \in threads : MknodTxf(t)
    \/ \E t \in threads : MknodExec(t)
    \/ \E t \in threads : RmdirTxf(t)
    \/ \E t \in threads : RmdirExec(t)

PairSpec == PairInit /\ [][PairNext]_vars

CopyOffsets == {0, ChunkSize - 1}
CopySizes == {PageSize, ChunkSize}

\* Compactions: each of two clients on two engines reads the chunk once, a
\* third client writes to it once.
CompactNext ==
    \/ \E p \in {"p1", "p2"} : Fresh(p) /\ Read(p, 2, 0)
    \/ Fresh("p3") /\ NewChunk("p3", 2, 0, PageSize, PageSize)
    \/ \E t \in threads : WriteTxf(t)
    \/ \E t \in threads : WriteExec(t)
    \/ \E t \in threads : CompactBegin(t)
    \/ \E t \in threads : CompactLRange(t)
    \/ \E t \in threads, ok \in BOOLEAN : CompactMsg(t, ok)
    \/ \E t \in threads : CompactTxf(t)
    \/ \E t \in threads : CompactPipelined(t)
    \/ \E t \in threads : CompactEinval(t)
    \/ \E t \in threads : CompactLLen(t)
    \/ \E t \in threads : CompactEnd(t)
    \/ \E t \in threads : DeleteSliceMsg(t, TRUE)
    \/ \E t \in threads : DeleteSliceDel(t)

CompactSpec == SliceInit /\ [][CompactNext]_vars

\* Copies: one client reads the chunk, one copies the file into the empty
\* file, one unlinks the file.
CopyNext ==
    \/ Fresh("p1") /\ Read("p1", 2, 0)
    \/ \E offOut \in CopyOffsets, size \in CopySizes :
          Fresh("p2") /\ CopyFileRange("p2", 2, 0, 3, offOut, size)
    \/ Fresh("p3") /\ Unlink("p3", RootInode, "a")
    \/ \E t \in threads : CopyTxf(t)
    \/ \E t \in threads : CopyPipelined(t)
    \/ \E t \in threads : UnlinkTxf(t)
    \/ \E t \in threads : UnlinkExec(t)
    \/ \E t \in threads : CompactBegin(t)
    \/ \E t \in threads : CompactLRange(t)
    \/ \E t \in threads, ok \in BOOLEAN : CompactMsg(t, ok)
    \/ \E t \in threads : CompactTxf(t)
    \/ \E t \in threads : CompactPipelined(t)
    \/ \E t \in threads : CompactEinval(t)
    \/ \E t \in threads : CompactLLen(t)
    \/ \E t \in threads : CompactEnd(t)
    \/ \E t \in threads : DeleteFileScan(t)
    \/ \E t \in threads : DeleteChunkTxf(t)
    \/ \E t \in threads : DeleteChunkExec(t)
    \/ \E t \in threads : DeleteSliceMsg(t, TRUE)
    \/ \E t \in threads : DeleteSliceDel(t)
    \/ \E t \in threads : DeleteFileZRem(t)

CopySpec == SliceInit /\ [][CopyNext]_vars

\* Lengths: file "a" (inode 2) and file "b" (inode 3), each with one written
\* slice; client 1 holds "b" open.
SpaceInit ==
    /\ inode = Put(Put(Put(Empty, RootInode,
                           NewAttr(TypeDirectory, 2, RootLength, RootInode)),
                       2, NewAttr(TypeFile, 1, PageSize + 1, RootInode)),
                   3, NewAttr(TypeFile, 1, 1, RootInode))
    /\ dent = Put(Put(Empty, <<RootInode, "a">>, packEntry(TypeFile, 2)),
                  <<RootInode, "b">>, packEntry(TypeFile, 3))
    /\ chunks = Put(Put(Empty, <<2, 0>>, <<Record(0, 1, PageSize + 1, 0, PageSize + 1)>>),
                    <<3, 0>>, <<Record(0, 2, 1, 0, 1)>>)
    /\ refs = Empty
    /\ sustain = [e \in Engines |-> {}]
    /\ delfiles = Empty
    /\ sessions = Empty
    /\ locks = {}
    /\ setting = NoFormat
    /\ xattrs = Empty
    /\ symlinks = {}
    /\ usedSpace = align4K(PageSize + 1) + align4K(1)
    /\ totalInodes = 2
    /\ nextinode = 3
    /\ nextchunk = 2
    /\ openFiles = [e \in Engines |-> IF e = 1 THEN Put(Empty, 3, 1) ELSE Empty]
    /\ removedFiles = [e \in Engines |-> {}]
    /\ compacting = [e \in Engines |-> {}]
    /\ objects = Empty
    /\ deleted = {}
    /\ handles = [e \in Engines |-> IF e = 1 THEN Put(Empty, 3, 1) ELSE Empty]
    /\ threads = {}
    /\ calls = 0
    /\ done = [p \in Procs |-> [fn |-> "", errno |-> "", a |-> NoLocals]]

FallocModes == {{}, {"KeepSize"}, {"ZeroRange"}, {"PunchHole"}}
SpaceLengths == {0, 2 * ChunkSize + 1, (ScanRange + 3) * ChunkSize + 1}

\* Each client makes one call on file "b": it changes its length, copies
\* file "a" into it, removes or replaces its entry, or closes it.
SpaceNext ==
    \/ \E p \in Procs, length \in SpaceLengths : Fresh(p) /\ Truncate(p, 3, length)
    \/ \E p \in Procs, mode \in FallocModes, size \in {0, PageSize + 1} :
          Fresh(p) /\ Fallocate(p, 3, mode, 0, size)
    \/ \E p \in Procs, indx \in Indexes : Fresh(p) /\ NewChunk(p, 3, indx, PageSize, PageSize)
    \/ \E p \in Procs : Fresh(p) /\ CopyFileRange(p, 2, 0, 3, 0, PageSize)
    \/ \E p \in Procs : Fresh(p) /\ Unlink(p, RootInode, "b")
    \/ \E p \in Procs : Fresh(p) /\ Rename(p, RootInode, "a", RootInode, "b")
    \/ \E p \in Procs : Fresh(p) /\ Close(p, 3)
    \/ \E t \in threads : TruncateTxf(t)
    \/ \E t \in threads : TruncateExec(t)
    \/ \E t \in threads : FallocateTxf(t)
    \/ \E t \in threads : FallocateExec(t)
    \/ \E t \in threads : WriteTxf(t)
    \/ \E t \in threads : WriteExec(t)
    \/ \E t \in threads : CopyTxf(t)
    \/ \E t \in threads : CopyPipelined(t)
    \/ \E t \in threads : UnlinkTxf(t)
    \/ \E t \in threads : UnlinkExec(t)
    \/ \E t \in threads : UnlinkPost(t)
    \/ \E t \in threads : RenamePre(t)
    \/ \E t \in threads : RenameTxf(t)
    \/ \E t \in threads : RenameExec(t)
    \/ \E t \in threads : RenamePost(t)
    \/ \E t \in threads : DeleteInodeGet(t)
    \/ \E t \in threads : DeleteInodeExec(t)
    \/ \E t \in threads : DeleteInodeSRem(t)

SpaceSpec == SpaceInit /\ [][SpaceNext]_vars

\* The runner alone: two callers of one engine, each with one transaction on
\* the same key; every run of rdb.Watch may return any of its errors.
TxnProcs == {"p1", "p3"}
TxnKeys == {inodeKey(2)}
TxnNext ==
    \/ \E p \in TxnProcs, key \in TxnKeys : Fresh(p) /\ Txn(p, key)
    \/ \E t \in threads, err \in WatchErrors : TxnWatch(t, err)
    \/ \E t \in threads : TxnReturn(t)

TxnSpec == HandleInit /\ [][TxnNext]_vars

\* Every call that has started takes its steps: the lock is granted when it
\* is free, rdb.Watch returns.
TxnFair ==
    \A p \in TxnProcs :
        WF_vars(\E t \in threads :
                   t.id = p /\ ((\E err \in WatchErrors : TxnWatch(t, err)) \/ TxnReturn(t)))
TxnLiveSpec == TxnSpec /\ TxnFair

\* A volume with the directory "a" (inode 2).
LinkInit ==
    /\ inode = Put(Put(Empty, RootInode, NewAttr(TypeDirectory, 3, RootLength, RootInode)),
                   2, mknodAttr(TypeDirectory, RootInode, <<>>))
    /\ dent = Put(Empty, <<RootInode, "a">>, packEntry(TypeDirectory, 2))
    /\ chunks = Empty
    /\ refs = Empty
    /\ sustain = [e \in Engines |-> {}]
    /\ delfiles = Empty
    /\ sessions = Empty
    /\ locks = {}
    /\ setting = NoFormat
    /\ xattrs = Empty
    /\ symlinks = {}
    /\ usedSpace = 0
    /\ totalInodes = 1
    /\ nextinode = 2
    /\ nextchunk = 0
    /\ openFiles = [e \in Engines |-> Empty]
    /\ removedFiles = [e \in Engines |-> {}]
    /\ compacting = [e \in Engines |-> {}]
    /\ objects = Empty
    /\ deleted = {}
    /\ handles = [e \in Engines |-> Empty]
    /\ threads = {}
    /\ calls = 0
    /\ done = [p \in Procs |-> [fn |-> "", errno |-> "", a |-> NoLocals]]

\* Directory operations of two clients, Link among them; Rename moves into
\* the root.
LinkNext ==
    \/ \E p \in DirProcs, parent \in Inos, name \in Names, typ \in DirTypes :
          Mknod(p, parent, name, typ, FALSE)
    \/ \E p \in DirProcs, parent \in Inos, name \in Names : Rmdir(p, parent, name)
    \/ \E p \in DirProcs, parent \in Inos, name \in Names : Unlink(p, parent, name)
    \/ \E p \in DirProcs, parent \in Inos, name \in Names, nd \in Names :
          /\ ~IntoItself(parent, name, RootInode)
          /\ Rename(p, parent, name, RootInode, nd)
    \/ \E p \in DirProcs, parent \in Inos, name \in Names :
          \E ino \in Known(p) : Link(p, ino, parent, name)
    \/ \E t \in threads : MknodTxf(t)
    \/ \E t \in threads : MknodExec(t)
    \/ \E t \in threads : RmdirTxf(t)
    \/ \E t \in threads : RmdirExec(t)
    \/ \E t \in threads : UnlinkTxf(t)
    \/ \E t \in threads : UnlinkExec(t)
    \/ \E t \in threads : LinkTxf(t)
    \/ \E t \in threads : LinkExec(t)
    \/ \E t \in threads : RenamePre(t)
    \/ \E t \in threads : RenameTxf(t)
    \/ \E t \in threads : RenameExec(t)
    \/ \E t \in threads : DeleteFileScan(t)
    \/ \E t \in threads : DeleteFileZRem(t)

LinkSpec == LinkInit /\ [][LinkNext]_vars

\* Names given by callers that do not resolve "." and ".." themselves.
DotNames == {".", "..", "a"}

\* Each of two clients makes one call with such a name.
DotNext ==
    \/ \E p \in DirProcs, parent \in {RootInode, 2}, name \in DotNames, typ \in DirTypes :
          Fresh(p) /\ Mknod(p, parent, name, typ, FALSE)
    \/ \E p \in DirProcs, parent \in {RootInode, 2}, name \in DotNames :
          Fresh(p) /\ Rmdir(p, parent, name)
    \/ \E p \in DirProcs, parent \in {RootInode, 2}, name \in DotNames :
          \E ino \in Known(p) : Fresh(p) /\ Link(p, ino, parent, name)
    \/ \E p \in DirProcs, nd \in DotNames :
          Fresh(p) /\ Rename(p, RootInode, "a", RootInode, nd)
    \/ \E t \in threads : MknodTxf(t)
    \/ \E t \in threads : MknodExec(t)
    \/ \E t \in threads : RmdirTxf(t)
    \/ \E t \in threads : RmdirExec(t)
    \/ \E t \in threads : LinkTxf(t)
    \/ \E t \in threads : LinkExec(t)
    \/ \E t \in threads : RenamePre(t)
    \/ \E t \in threads : RenameTxf(t)
    \/ \E t \in threads : RenameExec(t)

DotSpec == LinkInit /\ [][DotNext]_vars

\* A volume with the file "a" (inode 2) of user 1 and group 1, with the
\* set-user-ID and set-group-ID bits.
AttrInit ==
    /\ inode = Put(Put(Empty, RootInode, NewAttr(TypeDirectory, 2, RootLength, RootInode)),
                   2, [NewAttr(TypeFile, 1, 0, RootInode) EXCEPT
                          !.Mode = {"S_ISUID", "S_ISGID", "rwx"}, !.Uid = 1, !.Gid = 1])
    /\ dent = Put(Empty, <<RootInode, "a">>, packEntry(TypeFile, 2))
    /\ chunks = Empty
    /\ refs = Empty
    /\ sustain = [e \in Engines |-> {}]
    /\ delfiles = Empty
    /\ sessions = Empty
    /\ locks = {}
    /\ setting = NoFormat
    /\ xattrs = Empty
    /\ symlinks = {}
    /\ usedSpace = 0
    /\ totalInodes = 1
    /\ nextinode = 2
    /\ nextchunk = 0
    /\ openFiles = [e \in Engines |-> Empty]
    /\ removedFiles = [e \in Engines |-> {}]
    /\ compacting = [e \in Engines |-> {}]
    /\ objects = Empty
    /\ deleted = {}
    /\ handles = [e \in Engines |-> Empty]
    /\ threads = {}
    /\ calls = 0
    /\ done = [p \in Procs |-> [fn |-> "", errno |-> "", a |-> NoLocals]]

\* The callers of SetAttr ask for a new owner or group, a mode with or
\* without the set-group-ID bit, times; as root or as user 1, in group 1 or 2.
AttrNext ==
    LET AttrSets == {{"UID"}, {"GID"}, {"Mode"}, {"UID", "Mode"}, {"Atime"}, {"MtimeNow"}}
        AttrModes == {{"rwx"}, {"S_ISGID", "rwx"}}
        AttrTime == 2
    IN
    \/ \E p \in DirProcs, set \in AttrSets, mode \in AttrModes, uid \in {0, 1}, gid \in {1, 2} :
          /\ Fresh(p)
          /\ SetAttr(p, 2, set, [Mode |-> mode, Uid |-> 2, Gid |-> 2,
                                 Atime |-> AttrTime, Mtime |-> AttrTime], uid, gid)
    \/ \E t \in threads : SetAttrTxf(t)
    \/ \E t \in threads : SetAttrExec(t)

AttrSpec == AttrInit /\ [][AttrNext]_vars

\* Writes: the file "a" (inode 2) after a Truncate to one chunk and seventeen
\* Fallocate calls that zeroed its first unit: its first chunk has a log two
\* records short of a compaction.  No inode 3 exists.
WriteInit ==
    LET HoleLog == <<Record(0, 0, 0, 0, ChunkSize)>>
                   \o [i \in 1..(WriteCompactPeriod - 3) |-> Record(0, 0, 0, 0, 1)]
    IN
    /\ inode = Put(Put(Empty, RootInode, NewAttr(TypeDirectory, 2, RootLength, RootInode)),
                   2, NewAttr(TypeFile, 1, ChunkSize, RootInode))
    /\ dent = Put(Empty, <<RootInode, "a">>, packEntry(TypeFile, 2))
    /\ chunks = Put(Empty, <<2, 0>>, HoleLog)
    /\ refs = Empty
    /\ sustain = [e \in Engines |-> {}]
    /\ delfiles = Empty
    /\ sessions = Empty
    /\ locks = {}
    /\ setting = NoFormat
    /\ xattrs = Empty
    /\ symlinks = {}
    /\ usedSpace = align4K(ChunkSize)
    /\ totalInodes = 1
    /\ nextinode = 2
    /\ nextchunk = 0
    /\ openFiles = [e \in Engines |-> Empty]
    /\ removedFiles = [e \in Engines |-> {}]
    /\ compacting = [e \in Engines |-> {}]
    /\ objects = Empty
    /\ deleted = {}
    /\ handles = [e \in Engines |-> Empty]
    /\ threads = {}
    /\ calls = 0
    /\ done = [p \in Procs |-> [fn |-> "", errno |-> "", a |-> NoLocals]]

\* Two clients write once each, to the file or to the missing inode, into the
\* first or the second chunk; a third truncates the file.  The compaction
\* that a Write starts is followed in CompactSpec.
WriteNext ==
    \/ \E p \in {"p1", "p2"}, ino \in {2, 3}, indx \in Indexes,
            off \in {0, PageSize}, len \in {1, PageSize} :
          Fresh(p) /\ NewChunk(p, ino, indx, off, len)
    \/ \E length \in {0, ChunkSize + 1} : Fresh("p3") /\ Truncate("p3", 2, length)
    \/ \E t \in threads : WriteTxf(t)
    \/ \E t \in threads : WriteExec(t)
    \/ \E t \in threads : TruncateTxf(t)
    \/ \E t \in threads : TruncateExec(t)

WriteSpec == WriteInit /\ [][WriteNext]_vars

\* Reads: the file "a" (inode 2) with any log of up to MaxLog records in its
\* first chunk, every record a written slice or a hole over positions up to
\* MaxPos; one client reads the chunk, another writes to it.
ReadInit ==
    \E n \in 0..MaxLog :
    \E ext \in [1..n -> {e \in (0..MaxPos) \X (0..(MaxPos + 1)) : e[1] + e[2] <= MaxPos + 1}] :
    \E hole \in [1..n -> BOOLEAN] :
        LET log == [i \in 1..n |->
                       IF hole[i] THEN Record(ext[i][1], 0, 0, 0, ext[i][2])
                       ELSE Record(ext[i][1], i, ext[i][2] + 1, 1, ext[i][2])]
        IN
        /\ inode = Put(Put(Empty, RootInode, NewAttr(TypeDirectory, 2, RootLength, RootInode)),
                       2, NewAttr(TypeFile, 1, ChunkSize, RootInode))
        /\ dent = Put(Empty, <<RootInode, "a">>, packEntry(TypeFile, 2))
        /\ chunks = IF n = 0 THEN Empty ELSE Put(Empty, <<2, 0>>, log)
        /\ refs = Empty
        /\ sustain = [e \in Engines |-> {}]
        /\ delfiles = Empty
        /\ sessions = Empty
        /\ locks = {}
        /\ setting = NoFormat
        /\ xattrs = Empty
        /\ symlinks = {}
        /\ usedSpace = align4K(ChunkSize)
        /\ totalInodes = 1
        /\ nextinode = 2
        /\ nextchunk = n
        /\ openFiles = [e \in Engines |-> Empty]
        /\ removedFiles = [e \in Engines |-> {}]
        /\ compacting = [e \in Engines |-> {}]
        /\ objects = Empty
        /\ deleted = {}
        /\ handles = [e \in Engines |-> Empty]
        /\ threads = {}
        /\ calls = 0
        /\ done = [p \in Procs |-> [fn |-> "", errno |-> "", a |-> NoLocals]]

ReadNext ==
    \/ Fresh("p1") /\ ReadChunks("p1", 2, 0, TRUE)
    \/ Fresh("p2") /\ NewChunk("p2", 2, 0, 1, 1)
    \/ \E t \in threads : WriteTxf(t)
    \/ \E t \in threads : WriteExec(t)

ReadSpec == ReadInit /\ [][ReadNext]_vars

\* ----------------------------------------------------------------- claims
Subdirs(d) == {e \in DOMAIN dent : e[1] = d /\ dent[e].typ = TypeDirectory}

\* C1: every directory inode whose record exists has nlink equal to 2 plus
\* the number of entries of its entry map whose kind is directory.
C1_DirNlink ==
    \A d \in DOMAIN inode :
        inode[d].Typ = TypeDirectory => inode[d].Nlink = 2 + Cardinality(Subdirs(d))

Holds(dir, e, ino) == e \in DOMAIN dir /\ dir[e].ino = ino
Stepped(t) ==
    ~\E u \in threads' : u.id = t.id /\ u.pc = t.pc /\ u.tries = t.tries
Returns0(t) ==
    \/ \E u \in threads' : u.id = t.id /\ u.pc = "post"
    \/ (\A u \in threads' : u.id # t.id) /\ done'[t.id].errno = "OK"

\* C2: a Rename that returns 0 moves the entry in one step: before the step
\* the source name maps to the inode and the destination name does not, after
\* it the destination name maps to the inode, the source name does not and
\* the inode's parent pointer is the destination directory; no other step of
\* a Rename changes an entry map or an inode.
C2_RenameAtomic ==
    [][\A t \in threads :
          (t.fn = "Rename" /\ Stepped(t)) =>
             LET src == <<t.a.parentSrc, t.a.nameSrc>>
                 dst == <<t.a.parentDst, t.a.nameDst>>
             IN  IF t.pc = "exec" /\ Returns0(t)
                 THEN /\ Holds(dent, src, t.v.ino) /\ ~Holds(dent, dst, t.v.ino)
                      /\ ~Holds(dent', src, t.v.ino) /\ Holds(dent', dst, t.v.ino)
                      /\ t.v.ino \in DOMAIN inode'
                      /\ inode'[t.v.ino].Parent = t.a.parentDst
                 ELSE dent' = dent /\ inode' = inode]_vars

\* A Rename to another name returned 0 while another call was running.
C2_Witness ==
    \E p \in Procs :
        /\ done[p].fn = "Rename" /\ done[p].errno = "OK"
        /\ <<done[p].a.parentSrc, done[p].a.nameSrc>>
              # <<done[p].a.parentDst, done[p].a.nameDst>>
        /\ <<done[p].a.parentDst, done[p].a.nameDst>> \in DOMAIN dent
        /\ \E u \in threads : u.id # p /\ u.pc = "exec"

Renamed == {p \in Procs : done[p].fn = "Rename"}

\* C3: when both Renames of the same source entry have returned, exactly one
\* returned 0 and the other EAGAIN or ENOENT; the winner's destination name
\* maps to the source inode, the loser's does not exist and the source name
\* is absent.
C3_RenameRace ==
    Cardinality(Renamed) = 2 =>
        \E w \in Renamed :
            /\ done[w].errno = "OK"
            /\ Holds(dent, <<RaceParent, RaceDest(w)>>, RaceInode)
            /\ <<RaceParent, "a">> \notin DOMAIN dent
            /\ \A l \in Renamed \ {w} :
                  /\ done[l].errno \in {"EAGAIN", "ENOENT"}
                  /\ <<RaceParent, RaceDest(l)>> \notin DOMAIN dent

\* Both Renames returned, the loser's after the winner's commit refused its EXEC.
C3_Witness ==
    /\ Cardinality(Renamed) = 2
    /\ \E w \in Renamed, l \in Renamed :
          /\ done[w].errno = "OK" /\ done[l].errno = "ENOENT"
          /\ EngineOf(w) # EngineOf(l)

\* The data a Read of the log resolves to, unit by unit.
Content(obj, log) == Coalesce(obj, buildSlice(log))

\* The compaction t applies the head of its pipeline in this step.
Applies(t, cmd) ==
    /\ t.fn = "compactChunk" /\ t.pc = "pipe"
    /\ Head(t.v.pipe).cmd = cmd
    /\ \E u \in threads' \ threads :
          /\ u.fn = t.fn /\ u.eng = t.eng /\ u.a = t.a /\ u.pc = "pipe"
          /\ u.v.chunkid = t.v.chunkid /\ u.v.pipe = Tail(t.v.pipe)

\* Another compaction of the chunk of t has trimmed the log and not yet
\* pushed its record.
MidCommit(t) ==
    \E u \in threads \ {t} :
        /\ u.fn = "compactChunk" /\ u.a = t.a /\ u.pc = "pipe"
        /\ Head(u.v.pipe).cmd = "LPush"

\* C4: a compaction does not change what the chunk reads as: when its commit
\* trims the log (no other commit on the chunk being half applied), the log
\* with the compacted record in front resolves to the same data as the log
\* resolved to before the trim.
C4_CompactionPreservesRead ==
    [][\A t \in threads :
          (Applies(t, "LTrim") /\ ~MidCommit(t)) =>
             LET k == <<t.a.inode, t.a.indx>>
                 new == Record(0, t.v.chunkid, t.v.size, 0, t.v.size)
             IN  Content(objects, <<new>> \o ListOf(DB, k)') =
                 Content(objects, ListOf(DB, k))]_vars

\* C5: the commit of a compaction is applied only if the log still starts
\* with the records the compactor read.
C5_CommitOnlyOnSamePrefix ==
    [][\A t \in threads :
          Applies(t, "LTrim") =>
             LRange(DB, t.a.inode, t.a.indx, Len(t.v.vals) - 1) = t.v.vals]_vars

\* The slice <<chunkid, size>> is referenced by a record of some chunk log.
Referenced(s) ==
    \E k \in DOMAIN chunks : \E i \in DOMAIN chunks[k] :
        chunks[k][i].chunkid = s[1] /\ chunks[k][i].size = s[2]

\* C6: a DeleteChunk message for a chunk id above 0 is issued only when no
\* chunk log holds a record of that chunk id and size.
C6_DeleteOnlyUnreferenced ==
    [][\A t \in threads :
          (t.pc = "ds_msg" /\ [t EXCEPT !.pc = "ds_del"] \in threads'
              /\ Head(t.v.del)[1] > 0)
          => ~Referenced(Head(t.v.del))]_vars

\* C7: the refcount key of every record with a chunk id above 0 in a chunk
\* log is absent or holds a value that is not negative.
C7_RefcountNotNegative ==
    \A k \in DOMAIN chunks : \A i \in DOMAIN chunks[k] :
        chunks[k][i].chunkid > 0 =>
            RefOf(DB, <<chunks[k][i].chunkid, chunks[k][i].size>>) >= 0

\* C8: for every handle a caller holds (Open or Create returned 0, Close has
\* not run), the inode has nlink > 0, or its record exists and it is in the
\* sustain set of the session of the engine that holds the handle.
C8_OpenHandles ==
    \A e \in Engines : \A ino \in DOMAIN handles[e] :
        /\ ino \in DOMAIN inode
        /\ inode[ino].Nlink > 0 \/ ino \in sustain[e]

\* C10: every directory entry refers to an inode whose record exists.
C10_EntriesResolve ==
    \A e \in DOMAIN dent : dent[e].ino \in DOMAIN inode

\* C9: every regular file whose link count has reached 0 (its record has
\* nlink 0 or is absent) is in some session's sustain set, or has an entry
\* in delfiles, or has no record and no chunk log.
C9_RemovedFiles ==
    \A ino \in 2..MaxIno :
        (ino \notin DOMAIN inode
            \/ (inode[ino].Typ = TypeFile /\ inode[ino].Nlink = 0)) =>
           \/ \E e \in Engines : ino \in sustain[e]
           \/ \E m \in DOMAIN delfiles : m[1] = ino
           \/ ino \notin DOMAIN inode /\ \A k \in DOMAIN chunks : k[1] # ino

\* The directory entries that refer to the inode.
Entries(ino) == {e \in DOMAIN dent : dent[e].ino = ino}

\* C11: the nlink of every non-directory inode whose record exists equals the
\* number of directory entries that refer to it.
C11_FileNlink ==
    \A ino \in DOMAIN inode :
        inode[ino].Typ # TypeDirectory => inode[ino].Nlink = Cardinality(Entries(ino))

\* C12: totalInodes equals the number of inode records that exist; the record
\* of the root, which Init writes without counting it, is left out.
C12_TotalInodes ==
    totalInodes = Cardinality(DOMAIN inode \ {RootInode})

\* The sum of align4K(length) over the inodes of S.
RECURSIVE Space(_)
Space(S) ==
    IF S = {} THEN 0
    ELSE LET ino == CHOOSE i \in S : TRUE
         IN  align4K(inode[ino].Length) + Space(S \ {ino})

\* C13: while no CopyFileRange is between the first and the last command of
\* its pipeline, usedSpace equals the sum of align4K(length) over the regular
\* files whose record exists.
C13_UsedSpace ==
    (\A t \in threads : ~(t.fn = "CopyFileRange" /\ t.pc = "pipe")) =>
        usedSpace = Space({ino \in DOMAIN inode : inode[ino].Typ = TypeFile})

\* The call of p is running a transaction.
InTxn(p) == \E t \in threads : t.id = p /\ t.fn = "txn"

\* The step of the run t of rdb.Watch that returned t.v.err.
AfterWatch(t) ==
    /\ t.fn = "txn" /\ t.pc = "exec"
    /\ \A u \in threads' : u.id = t.id => (u.pc # "exec" \/ u.tries # t.tries)

\* C14: a transaction runs its function 50 times at most; after a conflict
\* that is not the 50th it runs the function again, still holding the lock
\* of its key; otherwise it returns, and the lock is free: 0 on success, the
\* errno of the function, ENOENT for a missing key, EIO for any other error
\* and for the 50th conflict; every transaction returns.
C14_TxnTerminates ==
    /\ [](\A t \in threads : t.fn = "txn" => t.tries < TxnRetries)
    /\ [][\A t \in threads : AfterWatch(t) =>
             IF t.v.err = "TxFailedErr" /\ t.tries + 1 < TxnRetries
             THEN /\ \E u \in threads' :
                        /\ u.id = t.id /\ u.pc = "txf" /\ u.tries = t.tries + 1
                        /\ u.lock = t.a.key
                  /\ done' = done
             ELSE /\ ~InTxn(t.id)'
                  /\ \A u \in threads' : u.lock # t.a.key
                  /\ done'[t.id].errno =
                        CASE t.v.err = "nil" -> "OK"
                          [] t.v.err \in Errnos -> t.v.err
                          [] t.v.err = "redis.Nil" -> "ENOENT"
                          [] OTHER -> "EIO"]_vars
    /\ \A p \in TxnProcs : InTxn(p) ~> ~InTxn(p)

\* The 50th run of a transaction is refused as the 49 before it.
C14_Witness ==
    \E t \in threads :
        /\ t.fn = "txn" /\ t.pc = "exec"
        /\ t.tries = TxnRetries - 1 /\ t.v.err = "TxFailedErr"
        /\ \E u \in threads : u.id # t.id /\ u.a.key = t.a.key /\ u.pc = "txf"

DirOps == {"Mknod", "Link", "Unlink", "Rmdir", "Rename"}
InCall(p) == \E t \in threads : t.id = p
IsDir(d, ino) == ino \in DOMAIN d /\ d[ino].Typ = TypeDirectory

\* This step is the return of errno e from the call fn(a) of p.
Fails(p, fn, a, e) ==
    ~InCall(p)' /\ done'[p] = [fn |-> fn, errno |-> e, a |-> a]

\* This step is the call fn(a) of p: it starts the call or is the whole of it.
Calls(p, fn, a) ==
    /\ ~InCall(p) /\ calls' = calls + 1
    /\ \/ \E u \in threads' : u.id = p /\ u.fn = fn /\ u.a = a
       \/ ~InCall(p)' /\ done'[p] # done[p] /\ done'[p].fn = fn /\ done'[p].a = a

\* This step is the return of a non-zero errno from a directory operation.
ReturnsError ==
    \E p \in Procs :
        /\ ~InCall(p)' /\ (InCall(p) \/ done'[p] # done[p])
        /\ done'[p].fn \in DirOps /\ done'[p].errno # "OK"

\* The errors of the directory operations, and no change of a stored record
\* in the step that returns one.
DirErrors ==
    /\ ReturnsError =>
          UNCHANGED <<inode, dent, chunks, refs, sustain, delfiles, xattrs,
                      symlinks, usedSpace, totalInodes>>
    /\ \A t \in threads :
          (t.fn \in {"Mknod", "Link"} /\ t.pc = "txf" /\ Stepped(t)) =>
             LET e == <<t.a.parent, t.a.name>> IN
             /\ (t.a.parent \in DOMAIN inode /\ ~IsDir(inode, t.a.parent)
                    /\ (t.fn = "Link" => t.a.inode \in DOMAIN inode))
                => Fails(t.id, t.fn, t.a, "ENOTDIR")
             /\ (IsDir(inode, t.a.parent) /\ e \in DOMAIN dent
                    /\ (t.fn = "Link" =>
                           t.a.inode \in DOMAIN inode /\ ~IsDir(inode, t.a.inode)))
                => Fails(t.id, t.fn, t.a, "EEXIST")
    /\ \A t \in threads :
          (t.fn = "Rmdir" /\ t.pc = "txf" /\ Stepped(t)) =>
             LET e == <<t.a.parent, t.a.name>> IN
             ((IsDir(inode, t.a.parent) /\ e \in DOMAIN dent
                  /\ dent[e].typ = TypeDirectory /\ \E k \in DOMAIN dent : k[1] = dent[e].ino)
              => Fails(t.id, t.fn, t.a, "ENOTEMPTY"))
    /\ \A t \in threads :
          (t.fn = "Unlink" /\ t.pc = "txf" /\ Stepped(t)) =>
             ((IsDir(inode, t.a.parent) /\ <<t.a.parent, t.a.name>> \notin DOMAIN dent)
              => Fails(t.id, t.fn, t.a, "ENOENT"))
    /\ \A p \in Procs, parent \in Inos, name \in Names :
          LET a == [parent |-> parent, name |-> name]
              e == <<parent, name>>
          IN  Calls(p, "Unlink", a) =>
                 /\ (e \notin DOMAIN dent => Fails(p, "Unlink", a, "ENOENT"))
                 /\ (e \in DOMAIN dent /\ dent[e].typ = TypeDirectory)
                       => Fails(p, "Unlink", a, "EPERM")

\* A Mknod of a name that exists, called while no other call runs, leaves
\* the counter nextinode as it was.
FailedMknodKeepsCounter ==
    \A t \in threads' :
        (threads = {} /\ t.fn = "Mknod" /\ IsDir(inode, t.a.parent)
            /\ <<t.a.parent, t.a.name>> \in DOMAIN dent)
        => nextinode' = nextinode

C16_NoDotEntries ==
    \A e \in DOMAIN dent : e[2] \notin {".", ".."}

\* The log of chunk k after a Truncate of inode ino from old to new > old.
Grown(ino, old, new, k) ==
    LET first == old \div ChunkSize
        last == new \div ChunkSize
        log == IF k \in DOMAIN chunks THEN chunks[k] ELSE <<>>
    IN  IF k[1] # ino THEN log
        ELSE IF k[2] = first
        THEN Append(log, Record(old % ChunkSize, 0, 0, 0,
                                (IF last > first THEN ChunkSize ELSE new % ChunkSize)
                                - (old % ChunkSize)))
        ELSE IF first < k[2] /\ k[2] < last /\ k \in DOMAIN chunks
        THEN Append(log, Record(0, 0, 0, 0, ChunkSize))
        ELSE IF k[2] = last /\ new % ChunkSize > 0
        THEN Append(log, Record(0, 0, 0, 0, new % ChunkSize))
        ELSE log

\* C17: the step in which a Truncate to a greater length returns 0 appends
\* one hole to the chunk of the old length, from the old length to the end
\* of that chunk or to the new length; one hole of a whole chunk to every
\* chunk between that one and the chunk of the new length that has a log,
\* creating none; one hole of new % ChunkSize at position 0 of the chunk of
\* the new length when that is a later chunk and the remainder is not 0; it
\* changes no other log, sets the length and adds
\* align4K(new) - align4K(old) to usedSpace.
C17_TruncateGrow ==
    [][\A t \in threads :
          (t.fn = "Truncate" /\ t.pc = "exec" /\ Stepped(t)
              /\ ~InCall(t.id)' /\ done'[t.id].errno = "OK"
              /\ t.a.length > inode[t.a.inode].Length) =>
             LET ino == t.a.inode
                 old == inode[ino].Length
                 new == t.a.length
                 keys == DOMAIN chunks \cup {<<ino, i>> : i \in 0..(new \div ChunkSize)}
             IN  /\ \A k \in keys :
                       IF Grown(ino, old, new, k) = <<>> THEN k \notin DOMAIN chunks'
                       ELSE k \in DOMAIN chunks' /\ chunks'[k] = Grown(ino, old, new, k)
                 /\ DOMAIN chunks' \subseteq keys
                 /\ inode' = [inode EXCEPT ![ino].Length = new,
                                          ![ino].Mtime = Now, ![ino].Ctime = Now]
                 /\ usedSpace' = usedSpace + align4K(new) - align4K(old)]_vars

\* A Truncate is about to grow a file over three chunks, the one in between
\* with a log.
C17_Witness ==
    \E t \in threads :
        /\ t.fn = "Truncate" /\ t.pc = "exec" /\ ~t.dirty
        /\ inode[t.a.inode].Length < ChunkSize
        /\ t.a.length > 2 * ChunkSize
        /\ <<t.a.inode, 1>> \in DOMAIN chunks

\* The step in which the SetAttr t commits.
Commits(t) ==
    /\ t.pc = "exec" /\ Stepped(t)
    /\ ~InCall(t.id)' /\ done'[t.id].errno = "OK"

\* C18: a SetAttr of the owner or the group of an inode that has the
\* set-user-ID or the set-group-ID bit leaves the inode without both bits
\* when the caller is not root, and with its mode unchanged when the caller
\* is root and sets no mode; a SetAttr of a mode with the set-group-ID bit
\* by a caller who is not root and whose group is not the group of the file
\* leaves the inode without that bit.
C18_SetAttrBits ==
    [][\A t \in threads :
          (t.fn = "SetAttr" /\ Commits(t)) =>
             LET cur == inode[t.a.inode]
                 new == inode'[t.a.inode]
                 owner == t.a.set \cap {"UID", "GID"} # {}
                 sugid == cur.Mode \cap {"S_ISUID", "S_ISGID"} # {}
             IN  /\ (owner /\ sugid /\ t.a.uid # 0)
                       => new.Mode \cap {"S_ISUID", "S_ISGID"} = {}
                 /\ (owner /\ sugid /\ t.a.uid = 0 /\ "Mode" \notin t.a.set)
                       => new.Mode = cur.Mode
                 /\ ("Mode" \in t.a.set /\ "S_ISGID" \in t.a.attr.Mode
                        /\ t.a.uid # 0 /\ t.a.gid # new.Gid)
                       => "S_ISGID" \notin new.Mode]_vars

\* The caller's thread t, in a plain pipeline, sends its next command in this
\* step.
PipeStep(t) ==
    /\ t.pc = "pipe"
    /\ ~\E u \in threads' :
          u.id = t.id /\ u.pc = "pipe" /\ Len(u.v.pipe) = Len(t.v.pipe)

\* The SetAttr calls that may change the atime of ino in this step.
SetsAtime(ino) ==
    \E t \in threads :
        /\ t.fn = "SetAttr" /\ Commits(t)
        /\ t.a.inode = ino
        /\ t.a.set \cap {"Atime", "AtimeNow"} # {}

\* The step writes the length of ino for a Truncate, a Write or a
\* CopyFileRange into ino.
WritesData(ino) ==
    \E t \in threads :
        \/ /\ t.fn \in {"Truncate", "Write"} /\ Commits(t)
           /\ t.a.inode = ino
        \/ /\ t.fn = "CopyFileRange" /\ PipeStep(t)
           /\ t.a.fout = ino
           /\ Head(t.v.pipe).cmd = "Set"

\* C19: in every step, an inode that exists before and after has its atime
\* changed only by a SetAttr with the atime or the atime-now flag, has its
\* ctime equal to the time of the step when its record changes, and has its
\* mtime equal to the time of the step when the step commits a Truncate, a
\* Write or a CopyFileRange into it.
C19_Timestamps ==
    [][\A ino \in DOMAIN inode \cap DOMAIN inode' :
          /\ inode'[ino].Atime # inode[ino].Atime => SetsAtime(ino)
          /\ inode'[ino] # inode[ino] => inode'[ino].Ctime = Now
          /\ WritesData(ino) => inode'[ino].Mtime = Now]_vars

\* C20: the step in which a Write returns 0 appends the record of the slice
\* to the log of its chunk and changes no other record of any log, sets the
\* length to the greater of the old length and indx * ChunkSize + off + len,
\* and starts a compaction of the chunk on its engine when the log then has
\* a multiple of 20 records; every other step of a Write changes no log and
\* no inode record, and a Write to a missing inode returns ENOENT.
C20_Write ==
    [][\A t \in threads :
          (t.fn = "Write" /\ Stepped(t)) =>
             LET ino == t.a.inode
                 k == <<ino, t.a.indx>>
                 log == IF k \in DOMAIN chunks THEN chunks[k] ELSE <<>>
                 end == t.a.indx * ChunkSize + t.a.off + t.a.slice.Len
             IN  IF t.pc = "exec" /\ ~InCall(t.id)' /\ done'[t.id].errno = "OK"
                 THEN /\ ino \in DOMAIN inode
                      /\ chunks' = Put(chunks, k,
                                       Append(log, Record(t.a.off, t.a.slice.Chunkid,
                                                          t.a.slice.Size, t.a.slice.Off,
                                                          t.a.slice.Len)))
                      /\ inode'[ino].Length =
                            IF end > inode[ino].Length THEN end ELSE inode[ino].Length
                      /\ (Len(log) + 1) % 20 = 0 =>
                            \E g \in threads' \ threads :
                                /\ g.fn = "compactChunk" /\ g.eng = t.eng
                                /\ g.a.inode = ino /\ g.a.indx = t.a.indx
                 ELSE /\ chunks' = chunks
                      /\ inode' = inode
                      /\ (t.pc = "txf" /\ ino \notin DOMAIN inode) =>
                            (~InCall(t.id)' /\ done'[t.id].errno = "ENOENT")]_vars

\* The twentieth record of the first chunk was written and a compaction of
\* the chunk was started; the other Write found no inode.
C20_Witness ==
    /\ Len(chunks[<<2, 0>>]) = WriteCompactPeriod
    /\ \E g \in threads : g.fn = "compactChunk" /\ g.a.inode = 2 /\ g.a.indx = 0
    /\ \E p \in {"p1", "p2"} : done[p].fn = "Write" /\ done[p].errno = "OK"

\* The record of ss that is visible at position x: the last one that covers
\* it (0: none).
Owner(ss, x) ==
    LET c == {j \in DOMAIN ss : ss[j].pos <= x /\ x < ss[j].pos + ss[j].len}
    IN  IF c = {} THEN 0 ELSE CHOOSE j \in c : \A i \in c : i <= j

LogEnd(ss) ==
    LET e == {ss[j].pos + ss[j].len : j \in DOMAIN ss}
    IN  IF e = {} THEN 0 ELSE CHOOSE x \in e : \A y \in e : y <= x

\* The position in the chunk at which slice n of out starts.
RECURSIVE StartOf(_, _)
StartOf(out, n) == IF n = 1 THEN 0 ELSE StartOf(out, n - 1) + out[n - 1].Len

\* The slices of out that cover position x.
Covering(out, x) ==
    {n \in DOMAIN out : StartOf(out, n) <= x /\ x < StartOf(out, n) + out[n].Len}

\* out is the overlay of the records of ss in append order.
Overlay(ss, out) ==
    /\ StartOf(out, Len(out) + 1) = LogEnd(ss)
    /\ \A x \in 0..(LogEnd(ss) - 1) :
          /\ Cardinality(Covering(out, x)) = 1
          /\ \A n \in Covering(out, x) :
                LET o == Owner(ss, x)
                IN  IF o = 0 THEN out[n].Chunkid = 0
                    ELSE /\ out[n].Chunkid = ss[o].chunkid
                         /\ out[n].Size = ss[o].size
                         /\ out[n].Off + (x - StartOf(out, n)) = ss[o].off + (x - ss[o].pos)

\* C21: the slices that a Read returns cover every position below the
\* greatest end of a record of the log exactly once, one after the other
\* from position 0, each position with the chunk id, the size and the offset
\* of the last record appended that contains it, or with chunk id 0 when no
\* record contains it.
C21_ReadOverlay ==
    [][\A p \in Procs :
          (done'[p] # done[p] /\ done'[p].fn = "Read") =>
             Overlay(LRange(DB, done'[p].a.inode, done'[p].a.indx, ReadRange),
                     done'[p].a.chunks)]_vars

\* A Read returned the slices of a log of two records, the first cut in two
\* by the second.
C21_Witness ==
    /\ done["p1"].fn = "Read"
    /\ done["p2"].fn = "" /\ threads = {}
    /\ <<2, 0>> \in DOMAIN chunks
    /\ chunks[<<2, 0>>] = <<Record(0, 1, 4, 1, 3), Record(1, 2, 2, 1, 1)>>
    /\ done["p1"].a.chunks = <<Slice(1, 4, 1, 1), Slice(2, 2, 1, 1), Slice(1, 4, 3, 1)>>

\* The step of the CopyFileRange t leaves the record and the logs of its
\* source as they are.
SourceKept(t) ==
    /\ t.a.fin \in DOMAIN inode =>
          (t.a.fin \in DOMAIN inode' /\ inode'[t.a.fin] = inode[t.a.fin])
    /\ \A k \in DOMAIN chunks \cup DOMAIN chunks' :
          k[1] = t.a.fin => (k \in DOMAIN chunks /\ k \in DOMAIN chunks'
                              /\ chunks'[k] = chunks[k])

\* The step appends records to logs of the destination of t only together
\* with one more reference to each chunk they name and with the new
\* attributes of the destination.
AppendsWithRefs(t) ==
    \A k \in DOMAIN chunks' :
        LET old == IF k \in DOMAIN chunks THEN chunks[k] ELSE <<>>
        IN  (k[1] = t.a.fout /\ Len(chunks'[k]) > Len(old)) =>
               /\ \A i \in (Len(old) + 1)..Len(chunks'[k]) :
                     LET rec == chunks'[k][i]
                         key == <<rec.chunkid, rec.size>>
                     IN  rec.chunkid > 0 =>
                            /\ key \in DOMAIN refs'
                            /\ refs'[key] > (IF key \in DOMAIN refs THEN refs[key] ELSE 0)
               /\ \E j \in DOMAIN t.v.pipe :
                     /\ t.v.pipe[j].cmd = "Set"
                     /\ inode'[t.a.fout] = t.v.pipe[j].attr

\* C22: no step of a CopyFileRange from one file into another changes the
\* record or a log of the source, and every step of it that appends a record
\* with a chunk id above 0 to a log of the destination also adds a reference
\* to that chunk and stores the new attributes of the destination.
C22_CopyAtomic ==
    [][\A t \in threads :
          (t.fn = "CopyFileRange" /\ PipeStep(t) /\ t.a.fin # t.a.fout) =>
             (SourceKept(t) /\ AppendsWithRefs(t))]_vars

\* C23: in each pass the sweeper picks only entries of delfiles whose score is
\* more than one hour before the current time, and at most 1000 of them.
C23_SweepOld ==
    [][\A t \in threads :
          (t.fn = "cleanupDeletedFiles" /\ t.pc = "sleep" /\ t \notin threads') =>
             \A u \in threads' :
                (u.fn = "cleanupDeletedFiles" /\ u.eng = t.eng) =>
                   /\ Len(u.v.todo) <= SweepCount
                   /\ \A i \in DOMAIN u.v.todo :
                         delfiles[u.v.todo[i]] < Now - Hour]_vars

\* The client of the session is gone: it has no heartbeat goroutine.
Gone(sid) == \A t \in threads : ~(t.fn = "refreshSession" /\ t.eng = sid)

\* The last recorded heartbeat of the session is less than 10 minutes old.
Live(sid) == sid \in DOMAIN sessions /\ sessions[sid] > Now - StaleAge

\* C24: when the client of session 1 is gone, its last heartbeat is 10 minutes
\* old and it holds inode 3 open, and another client runs its sweepers,
\* then eventually every inode of its sustain set has no record and its chunks
\* are queued for deletion or gone, no lock entry has its session id, and the
\* session is in neither the session set nor the sustain sets.
C24_DeadSessionReclaimed ==
    (Gone(1) /\ 1 \in DOMAIN sessions /\ ~Live(1) /\ 3 \in sustain[1]) ~>
       (/\ 3 \notin DOMAIN inode
        /\ (\E m \in DOMAIN delfiles : m[1] = 3) \/ (\A k \in DOMAIN chunks : k[1] # 3)
        /\ \A l \in locks : l[2] # 1
        /\ 1 \notin DOMAIN sessions
        /\ sustain[1] = {})

\* A step of the stale-session sweeper of the engine.
SweeperStep(e) ==
    \E t \in threads : t.fn = "cleanStaleSessions" /\ t.eng = e /\ t \notin threads'

\* C25: no step of the stale-session sweeper of another client changes the
\* sustain set, the sustained inodes or the session entry of a session whose
\* last recorded heartbeat is less than 10 minutes old, and every lock entry
\* a sweeper removes has the id of a session that is not such a session.
C25_LiveSessionKept ==
    [][\A e \in Engines :
          SweeperStep(e) =>
             /\ \A sid \in Engines \ {e} :
                   Live(sid) =>
                      /\ sustain'[sid] = sustain[sid]
                      /\ sid \in DOMAIN sessions' /\ sessions'[sid] = sessions[sid]
                      /\ \A ino \in sustain[sid] :
                            ino \in DOMAIN inode => ino \in DOMAIN inode'
             /\ \A l \in locks \ locks' : ~Live(l[2])]_vars

\* C26: when every call has returned and every goroutine has ended, an inode
\* in the sustain set of a session has an open handle on that client: an
\* unlinked file whose last handle was closed does not stay sustained.
C26_DeleteOnLastClose ==
    threads = {} =>
       \A e \in Engines : \A ino \in sustain[e] : Count(handles[e], ino) > 0

\* C27: a Close of an inode whose open count on the client is 0 returns 0,
\* changes neither the open-handle table, the pending-delete set nor a stored
\* record and starts no deletion; and a Close leaves the open count of the
\* inode at least the number of handles that remain open, when it was at
\* least the number of open handles before.
C27_CloseIdempotent ==
    [][\A p \in Procs, ino \in Inos :
          (Close(p, ino) \/ CloseClosed(p, ino)) =>
             LET e == EngineOf(p) IN
             /\ Count(openFiles[e], ino) = 0 =>
                   /\ done'[p].errno = "OK"
                   /\ UNCHANGED <<openFiles, removedFiles, threads>>
                   /\ StoreUnchanged
             /\ Count(openFiles[e], ino) >= Count(handles[e], ino) =>
                   Count(openFiles'[e], ino) >= Count(handles'[e], ino)]_vars

\* The compactions of the engine that have passed the check of the
\* compaction-in-progress set and have not returned.
InProgress(e) ==
    {t \in threads : t.fn = "compactChunk" /\ t.eng = e /\ t.pc # "begin"}

\* C28: on every engine at most 10 compactions are in progress, no two of
\* them for the same inode and chunk index, and the compaction-in-progress
\* set holds the keys of the compactions in progress and no other.
C28_CompactionCap ==
    \A e \in Engines :
       /\ Cardinality(InProgress(e)) <= 10
       /\ \A t, u \in InProgress(e) : t.a = u.a => t = u
       /\ compacting[e] = {<<t.a.inode, t.a.indx>> : t \in InProgress(e)}

\* C29: every step of an Init without force on a formatted volume leaves the
\* UUID and the other settings of the format record and every filesystem
\* record as they are, the attributes of the root inode included; and an Init
\* that fails changes nothing.
C29_InitKeeps ==
    [][\A t \in threads :
          (t.fn = "Init" /\ ~t.a.force /\ setting # NoFormat /\ t \notin threads') =>
             /\ setting' # NoFormat
             /\ setting'.UUID = setting.UUID /\ setting'.Storage = setting.Storage
             /\ inode' = inode
             /\ FilesUnchanged
             /\ UNCHANGED <<sustain, sessions, locks>>
             /\ (~InCall(t.id)' /\ done'[t.id].errno # "OK") => UNCHANGED setting]_vars

\* Mkdir(parent, name) returned 0, then Rmdir(parent, name) returned 0, and
\* nothing else was called.
PairDone(parent, name) ==
    /\ threads = {} /\ calls = 2
    /\ done["p1"] = [fn |-> "Mknod", errno |-> "OK",
                     a |-> [parent |-> parent, name |-> name, typ |-> TypeDirectory,
                            create |-> FALSE]]
    /\ done["p3"] = [fn |-> "Rmdir", errno |-> "OK",
                     a |-> [parent |-> parent, name |-> name]]

\* C30: after Mkdir(parent, name) and then Rmdir(parent, name) the entry maps,
\* the inode records (the times of the parent apart) and the counters
\* totalInodes and usedSpace are those from before the Mkdir, and the inode
\* the Mkdir allocated has no inode record, no entry map and no xattr key.
C30_MkdirRmdir ==
    \A parent \in PairParents, name \in Names :
       PairDone(parent, name) =>
          /\ dent = PairDent
          /\ inode = [PairInode EXCEPT ![parent].Mtime = Now, ![parent].Ctime = Now]
          /\ inode[parent].Nlink = PairInode[parent].Nlink
          /\ totalInodes = 1 /\ usedSpace = 0
          /\ nextinode \notin DOMAIN inode
          /\ \A k \in DOMAIN dent : k[1] # nextinode
          /\ nextinode \notin DOMAIN xattrs

C30_Witness == PairDone(2, "b") /\ nextinode = 3

\* ------------------------------------------------------- the lock array
\* Two callers of one engine, one call each: they link and unlink names of
\* the file "a" of the root, and the second may run a transaction on the key
\* of inode 183, which shares its slot of txlocks with the entry map of the
\* root.
LockProcs == {"p1", "p3"}
CollidingInode ==
    CHOOSE n \in (MaxIno + 1)..200 : Slot(inodeKey(n)) = Slot(entryKey(RootInode))
LockNext ==
    \/ \E p \in LockProcs, name \in Names : Fresh(p) /\ Link(p, 2, RootInode, name)
    \/ \E p \in LockProcs, name \in Names : Fresh(p) /\ Unlink(p, RootInode, name)
    \/ Fresh("p3") /\ Txn("p3", inodeKey(CollidingInode))
    \/ \E t \in threads : LinkTxf(t)
    \/ \E t \in threads : LinkExec(t)
    \/ \E t \in threads : UnlinkTxf(t)
    \/ \E t \in threads : UnlinkExec(t)
    \/ \E t \in threads : UnlinkPost(t)
    \/ \E t \in threads, err \in WatchErrors : TxnWatch(t, err)
    \/ \E t \in threads : TxnReturn(t)

LockSpec == HandleInit /\ [][LockNext]_vars

\* keys[0] of the transaction of t.
FirstKey(t) ==
    CASE t.fn = "Link" -> inodeKey(t.a.inode)
      [] t.fn = "Unlink" -> entryKey(t.a.parent)
      [] t.fn = "txn" -> t.a.key

\* t is inside l.Lock() ... l.Unlock() of txn.
Locked(t) == t.lock # NoKey
Names2 == {e \in DOMAIN dent : dent[e].ino = 2}

\* C31: two transactions of one engine whose first keys have the same slot
\* of txlocks are never inside their transaction functions together; a
\* transaction holds the lock of its first key only, and one that holds a
\* lock never waits for another, so some holder can always step; Link and
\* Unlink of one inode run together under different locks, both watch the
\* key of the inode, the commit of one refuses the EXEC of the other, and the
\* link count of the inode stays the number of its names.
C31_LockArray ==
    /\ \A t, u \in threads :
          (t # u /\ t.eng = u.eng /\ Locked(t) /\ Locked(u))
             => Slot(t.lock) # Slot(u.lock)
    /\ \A t \in threads :
          /\ Locked(t) => t.lock = FirstKey(t) /\ t.pc \in {"txf", "exec"}
          /\ (t.pc = "txf" /\ ~CanLock(t, FirstKey(t)))
                => \E u \in threads : /\ u.eng = t.eng /\ Locked(u)
                                      /\ Slot(u.lock) = Slot(FirstKey(t))
                                      /\ CanLock(u, u.lock)
    /\ \A t, u \in threads :
          (/\ t.fn = "Link" /\ u.fn = "Unlink" /\ t.pc = "exec" /\ u.pc = "exec"
           /\ t.a.inode = u.v.inode)
             => /\ inodeKey(t.a.inode) \in t.watch \cap u.watch
                /\ Slot(t.lock) # Slot(u.lock)
    /\ 2 \in DOMAIN inode => inode[2].Nlink = Cardinality(Names2)

\* An Unlink in the root is inside its transaction; a transaction on the key
\* of inode 183 waits for the same slot.
C31_Witness ==
    \E t, u \in threads :
       /\ t.fn = "Unlink" /\ t.pc = "exec" /\ t.eng = u.eng
       /\ u.fn = "txn" /\ u.pc = "txf" /\ u.a.key = inodeKey(CollidingInode)
       /\ Slot(t.lock) = Slot(u.a.key) /\ t.lock # u.a.key

\* Link and Unlink of inode 2 are inside their transactions on one engine.
LinkUnlinkOverlap ==
    \E t, u \in threads :
       /\ t.fn = "Link" /\ u.fn = "Unlink" /\ t.pc = "exec" /\ u.pc = "exec"
       /\ t.eng = u.eng /\ t.a.inode = u.v.inode

\* ------------------------------------------- deleteFile, failing commands
\* p.Exec of the LLen pipeline fails: deleteFile logs and returns.
DeleteFileScanFail(t) ==
    /\ t.fn = "deleteFile" /\ t.pc = "scan"
    /\ threads' = Threads(t, {}, {}, {})
    /\ StoreUnchanged /\ MemoryUnchanged /\ PlaneUnchanged /\ CountersUnchanged
    /\ UNCHANGED <<handles, calls, done>>

\* tx.LRange fails in the transaction function of deleteChunk: err is
\* compared with redis.Nil only and then assigned again from tx.TxPipelined,
\* whose function queues nothing for vals = nil; a pipeline of no command
\* gives nil, txn returns 0, slices is empty and the loop of deleteChunk
\* ends with nil.
DeleteChunkLRangeFail(t) ==
    /\ t.pc = "dc_txf"
    /\ CanLock(t, chunkKey(t.a.inode, Head(t.v.todo)))
    /\ LET todo == Tail(t.v.todo) IN
       threads' = Threads(t,
          {AfterSlices(t, [t.v EXCEPT !.del = <<>>, !.rs = <<>>, !.todo = todo,
                                      !.ret = IF todo = <<>> THEN t.v.done
                                              ELSE "dc_txf"])}, {}, {})
    /\ StoreUnchanged /\ MemoryUnchanged /\ PlaneUnchanged /\ CountersUnchanged
    /\ UNCHANGED <<handles, calls, done>>

\* WATCH or EXEC fails with an error that is not TxFailedErr: txn returns
\* EIO, deleteChunk an error, and deleteFile logs and returns.
DeleteChunkWatchFail(t) ==
    /\ t.pc \in {"dc_txf", "dc_exec"}
    /\ t.pc = "dc_txf" => CanLock(t, chunkKey(t.a.inode, Head(t.v.todo)))
    /\ threads' = Threads(t, {}, {}, {})
    /\ StoreUnchanged /\ MemoryUnchanged /\ PlaneUnchanged /\ CountersUnchanged
    /\ UNCHANGED <<handles, calls, done>>

\* deleteSlice: the Del of the refcount key fails; the error is dropped.
DeleteSliceDelFail(t) ==
    /\ t.pc = "ds_del"
    /\ threads' = Threads(t, {AfterSlices(t, [t.v EXCEPT !.del = Tail(@)])}, {}, {})
    /\ StoreUnchanged /\ MemoryUnchanged /\ PlaneUnchanged /\ CountersUnchanged
    /\ UNCHANGED <<handles, calls, done>>

\* The ZRem of the tracking member fails; the error is dropped.
DeleteFileZRemFail(t) ==
    /\ t.fn = "deleteFile" /\ t.pc = "zrem"
    /\ threads' = Threads(t, {}, {}, {})
    /\ StoreUnchanged /\ MemoryUnchanged /\ PlaneUnchanged /\ CountersUnchanged
    /\ UNCHANGED <<handles, calls, done>>

\* A volume after the Unlink of the file inode 3, of two chunks, two hours
\* ago: its entry of delfiles and its chunk logs are left; the slice 2 is in
\* both logs (refcount 1). The sweeper of the second client runs its passes;
\* every command of deleteFile, deleteChunk and deleteSlice may fail.
RetryLength == ChunkSize + PageSize
RetryInit ==
    /\ inode = Put(Empty, RootInode, NewAttr(TypeDirectory, 2, RootLength, RootInode))
    /\ dent = Empty
    /\ chunks = Put(Put(Empty, <<3, 0>>, <<Record(0, 1, PageSize, 0, PageSize),
                                          Record(PageSize, 2, PageSize, 0, PageSize)>>),
                    <<3, 1>>, <<Record(0, 2, PageSize, 0, PageSize)>>)
    /\ refs = Put(Empty, <<2, PageSize>>, 1)
    /\ sustain = [e \in Engines |-> {}]
    /\ delfiles = Put(Empty, toDelete(3, RetryLength), Now - 2 * Hour)
    /\ sessions = Empty
    /\ locks = {}
    /\ setting = NoFormat
    /\ xattrs = Empty
    /\ symlinks = {}
    /\ usedSpace = 0
    /\ totalInodes = 1
    /\ nextinode = 3
    /\ nextchunk = 2
    /\ openFiles = [e \in Engines |-> Empty]
    /\ removedFiles = [e \in Engines |-> {}]
    /\ compacting = [e \in Engines |-> {}]
    /\ objects = Empty
    /\ deleted = {}
    /\ handles = [e \in Engines |-> Empty]
    /\ threads = {cleanupDeletedFiles(2)}
    /\ calls = 0
    /\ done = [p \in Procs |-> [fn |-> "", errno |-> "", a |-> NoLocals]]

RetryNext ==
    \/ \E t \in threads : SweepRange(t)
    \/ \E t \in threads : SweepDelete(t)
    \/ \E t \in threads : DeleteFileScan(t)
    \/ \E t \in threads : DeleteFileScanFail(t)
    \/ \E t \in threads : DeleteChunkTxf(t)
    \/ \E t \in threads : DeleteChunkLRangeFail(t)
    \/ \E t \in threads : DeleteChunkWatchFail(t)
    \/ \E t \in threads : DeleteChunkExec(t)
    \/ \E t \in threads, ok \in BOOLEAN : DeleteSliceMsg(t, ok)
    \/ \E t \in threads : DeleteSliceDel(t)
    \/ \E t \in threads : DeleteSliceDelFail(t)
    \/ \E t \in threads : DeleteFileZRem(t)
    \/ \E t \in threads : DeleteFileZRemFail(t)

RetrySpec == RetryInit /\ [][RetryNext]_vars

\* The chunk indexes below ceil(length / ChunkSize).
IndexesBelow(length) == 0..(((length + ChunkSize - 1) \div ChunkSize) - 1)

\* C32: a member of delfiles is removed only when every chunk log of its
\* inode below ceil(length / ChunkSize) is empty (so a deleteFile in which a
\* command or a chunk deletion failed leaves the member for a later pass),
\* and a DeleteChunk message that fails leaves the refcount key of its slice
\* in place, negative.
C32_DeleteFileRetries ==
    [][/\ \A m \in DOMAIN delfiles :
             m \notin DOMAIN delfiles'
                => \A indx \in IndexesBelow(m[2]) : LLen(DB, m[1], indx) = 0
       /\ \A t \in threads :
             (t.pc = "ds_msg" /\ t \notin threads' /\ Head(t.v.del) \notin deleted')
                => /\ Head(t.v.del) \in DOMAIN refs'
                   /\ refs'[Head(t.v.del)] < 0]_vars

\* --------------------------------------- deleteChunk against a compaction
\* The file inode 3 was unlinked while a compaction of its chunk 0, started
\* by a Read of the second client, had not begun: the deleteFile of the
\* first client and the compaction run together.
TrimInit ==
    /\ inode = Put(Empty, RootInode, NewAttr(TypeDirectory, 2, RootLength, RootInode))
    /\ dent = Empty
    /\ chunks = Put(Empty, <<3, 0>>, <<Record(0, 1, PageSize, 0, PageSize),
                                      Record(PageSize, 2, PageSize, 0, PageSize)>>)
    /\ refs = Empty
    /\ sustain = [e \in Engines |-> {}]
    /\ delfiles = Put(Empty, toDelete(3, ChunkSize), Now)
    /\ sessions = Empty
    /\ locks = {}
    /\ setting = NoFormat
    /\ xattrs = Empty
    /\ symlinks = {}
    /\ usedSpace = 0
    /\ totalInodes = 1
    /\ nextinode = 3
    /\ nextchunk = 2
    /\ openFiles = [e \in Engines |-> Empty]
    /\ removedFiles = [e \in Engines |-> {}]
    /\ compacting = [e \in Engines |-> {}]
    /\ objects = Empty
    /\ deleted = {}
    /\ handles = [e \in Engines |-> Empty]
    /\ threads = {deleteFile(1, 3, ChunkSize, NoKey), compactChunk(2, 3, 0)}
    /\ calls = 0
    /\ done = [p \in Procs |-> [fn |-> "", errno |-> "", a |-> NoLocals]]

TrimNext ==
    \/ \E t \in threads : DeleteFileScan(t)
    \/ \E t \in threads : DeleteChunkTxf(t)
    \/ \E t \in threads : DeleteChunkExec(t)
    \/ \E t \in threads, ok \in BOOLEAN : DeleteSliceMsg(t, ok)
    \/ \E t \in threads : DeleteSliceDel(t)
    \/ \E t \in threads : DeleteFileZRem(t)
    \/ \E t \in threads : CompactBegin(t)
    \/ \E t \in threads : CompactLRange(t)
    \/ \E t \in threads, ok \in BOOLEAN : CompactMsg(t, ok)
    \/ \E t \in threads : CompactTxf(t)
    \/ \E t \in threads : CompactPipelined(t)
    \/ \E t \in threads : CompactEinval(t)
    \/ \E t \in threads : CompactLLen(t)
    \/ \E t \in threads : CompactEnd(t)

TrimSpec == TrimInit /\ [][TrimNext]_vars

\* The slices of a committed deleteChunk whose own Decr gave a negative
\* value: res holds the replies of the committed pipeline, LPop and Decr in
\* turn.
Negative(slices, res) ==
    LET F[n \in 0..Len(slices)] ==
            IF n = 0 THEN <<>>
            ELSE IF res[2 * n] < 0 THEN Append(F[n - 1], slices[n]) ELSE F[n - 1]
    IN  F[Len(slices)]

\* C33: when deleteChunk commits, the slices it goes on to delete are those
\* popped records whose committed Decr returned a negative value, whether or
\* not the transaction function had been run before.
C33_TrimSchedules ==
    [][\A t \in threads :
          (t.fn = "deleteFile" /\ t.pc = "dc_exec" /\ ~t.dirty /\ t.v.pipe # <<>>
           /\ DeleteChunkExec(t))
             => \E u \in threads' :
                   /\ u.fn = "deleteFile" /\ u.a = t.a /\ u.eng = t.eng
                   /\ u.v.del = Negative(t.v.slices, Exec(DB, t.v.pipe).res)]_vars

\* ------------------------------------------------ Fallocate, zeroing modes
\* The file "b" (inode 3) of a chunk and a half; two clients call Fallocate
\* with a zeroing mode, once each, at offsets inside the file, at its end and
\* beyond it.
ZeroModes == {{"ZeroRange"}, {"ZeroRange", "KeepSize"}, {"PunchHole", "KeepSize"}}
FallocLength == ChunkSize + PageSize
FallocOffsets == {0, ChunkSize - 1, FallocLength, FallocLength + 1}
FallocSizes == {PageSize, ChunkSize + 1}
FallocInit ==
    /\ inode = Put(Put(Empty, RootInode, NewAttr(TypeDirectory, 2, RootLength, RootInode)),
                   3, NewAttr(TypeFile, 1, FallocLength, RootInode))
    /\ dent = Put(Empty, <<RootInode, "b">>, packEntry(TypeFile, 3))
    /\ chunks = Put(Put(Empty, <<3, 0>>, <<Record(0, 1, ChunkSize, 0, ChunkSize)>>),
                    <<3, 1>>, <<Record(0, 2, PageSize, 0, PageSize)>>)
    /\ refs = Empty
    /\ sustain = [e \in Engines |-> {}]
    /\ delfiles = Empty
    /\ sessions = Empty
    /\ locks = {}
    /\ setting = NoFormat
    /\ xattrs = Empty
    /\ symlinks = {}
    /\ usedSpace = align4K(FallocLength)
    /\ totalInodes = 2
    /\ nextinode = 3
    /\ nextchunk = 2
    /\ openFiles = [e \in Engines |-> Empty]
    /\ removedFiles = [e \in Engines |-> {}]
    /\ compacting = [e \in Engines |-> {}]
    /\ objects = Empty
    /\ deleted = {}
    /\ handles = [e \in Engines |-> Empty]
    /\ threads = {}
    /\ calls = 0
    /\ done = [p \in Procs |-> [fn |-> "", errno |-> "", a |-> NoLocals]]

FallocNext ==
    \/ \E p \in DirProcs, mode \in ZeroModes, off \in FallocOffsets, size \in FallocSizes :
          Fresh(p) /\ Fallocate(p, 3, mode, off, size)
    \/ \E t \in threads : FallocateTxf(t)
    \/ \E t \in threads : FallocateExec(t)

FallocSpec == FallocInit /\ [][FallocNext]_vars

Log(ino, indx) == IF <<ino, indx>> \in DOMAIN chunks THEN chunks[<<ino, indx>>] ELSE <<>>

\* The hole record of the part of [lo, hi) that lies in chunk indx.
HoleIn(indx, lo, hi) ==
    LET s == IF lo > indx * ChunkSize THEN lo ELSE indx * ChunkSize
        e == IF hi < (indx + 1) * ChunkSize THEN hi ELSE (indx + 1) * ChunkSize
    IN  IF s < e THEN <<Record(s - indx * ChunkSize, 0, 0, 0, e - s)>> ELSE <<>>

FallocIndexes == 0..((FallocLength + 1 + ChunkSize + 1) \div ChunkSize)

\* C34: a Fallocate with a zeroing mode and size > 0 on a file of length old
\* never stays in its loop, and its commit appends to each chunk log the
\* hole record of the part of [off, min(off + size, old)) in that chunk and
\* nothing else: nothing at all when off >= old.
C34_FallocateZeroes ==
    [][/\ \A t \in threads' : t.pc # "loop"
       /\ \A t \in threads :
             (t.fn = "Fallocate" /\ t.pc = "exec" /\ ~t.dirty /\ FallocateExec(t))
                => LET old == inode[t.a.inode].Length
                       end == IF t.a.off + t.a.size < old THEN t.a.off + t.a.size
                              ELSE old
                   IN  \A indx \in FallocIndexes :
                          Log(t.a.inode, indx)' =
                             Log(t.a.inode, indx) \o HoleIn(indx, t.a.off, end)]_vars

\* The RPush commands of a pipeline.
Pushes(pipe) == {i \in DOMAIN pipe : pipe[i].cmd = "RPush"}
RECURSIVE PushedLen(_)
PushedLen(pipe) ==
    IF pipe = <<>> THEN 0
    ELSE (IF Head(pipe).cmd = "RPush" THEN Head(pipe).rec.len ELSE 0)
         + PushedLen(Tail(pipe))

\* C35: the records CopyFileRange queues for the destination lie inside
\* [offOut, offOut + n), n = min(size, srcLength - offIn), each inside one
\* chunk, and their lengths sum to n.
C35_CopyClips ==
    [][\A t \in threads :
          (t.fn = "CopyFileRange" /\ t.pc = "txf" /\ CopyTxf(t))
             => \A u \in threads' :
                   (u.id = t.id /\ u.pc = "pipe")
                      => LET left == inode[t.a.fin].Length - t.a.offIn
                             n == IF t.a.size < left THEN t.a.size ELSE left
                         IN  /\ \A i \in Pushes(u.v.pipe) :
                                   LET c == u.v.pipe[i]
                                       at == c.indx * ChunkSize + c.rec.pos
                                   IN  /\ c.ino = t.a.fout
                                       /\ c.rec.len > 0
                                       /\ c.rec.pos + c.rec.len <= ChunkSize
                                       /\ t.a.offOut <= at
                                       /\ at + c.rec.len <= t.a.offOut + n
                             /\ PushedLen(u.v.pipe) = n]_vars

\* ------------------------------------------------------- holes, deleted
\* The file "b" of the Fallocate volume: one client punches a hole in it,
\* another unlinks it, and its chunks are deleted.
HoleNext ==
    \/ \E off \in {0, ChunkSize - 1}, size \in FallocSizes :
          Fresh("p1") /\ Fallocate("p1", 3, {"PunchHole", "KeepSize"}, off, size)
    \/ Fresh("p2") /\ Unlink("p2", RootInode, "b")
    \/ \E t \in threads : FallocateTxf(t)
    \/ \E t \in threads : FallocateExec(t)
    \/ \E t \in threads : UnlinkTxf(t)
    \/ \E t \in threads : UnlinkExec(t)
    \/ \E t \in threads : DeleteFileScan(t)
    \/ \E t \in threads : DeleteChunkTxf(t)
    \/ \E t \in threads : DeleteChunkExec(t)
    \/ \E t \in threads, ok \in BOOLEAN : DeleteSliceMsg(t, ok)
    \/ \E t \in threads : DeleteSliceDel(t)
    \/ \E t \in threads : DeleteFileZRem(t)

HoleSpec == FallocInit /\ [][HoleNext]_vars

\* C36: no refcount key exists for chunk id 0, and no DeleteChunk message
\* was taken for chunk id 0.
C36_HolesUncounted ==
    /\ \A k \in DOMAIN refs : k[1] # 0
    /\ \A s \in deleted : s[1] # 0

\* ---------------------------------------------------------------------------
\* Rmdir against a replaced entry.  A Rmdir of (root, "a") has read the entry
\* outside its transaction and found directory 4; since then directory 2 was
\* renamed over it (removing 4) and the file 3 was moved out of 2 to
\* (root, "b").  The Rmdir is about to open its transaction with the keys of
\* inode 4; other callers link the file into a directory or remove one.
StaleInit ==
    /\ inode = Put(Put(Put(Empty, RootInode,
                           NewAttr(TypeDirectory, 3, RootLength, RootInode)),
                       2, mknodAttr(TypeDirectory, RootInode, <<>>)),
                   3, mknodAttr(TypeFile, RootInode, <<>>))
    /\ dent = Put(Put(Empty, <<RootInode, "a">>, packEntry(TypeDirectory, 2)),
                  <<RootInode, "b">>, packEntry(TypeFile, 3))
    /\ chunks = Empty
    /\ refs = Empty
    /\ sustain = [e \in Engines |-> {}]
    /\ delfiles = Empty
    /\ sessions = Empty
    /\ locks = {}
    /\ setting = NoFormat
    /\ xattrs = Empty
    /\ symlinks = {}
    /\ usedSpace = 0
    /\ totalInodes = 2
    /\ nextinode = 4
    /\ nextchunk = 0
    /\ openFiles = [e \in Engines |-> Empty]
    /\ removedFiles = [e \in Engines |-> {}]
    /\ compacting = [e \in Engines |-> {}]
    /\ objects = Empty
    /\ deleted = {}
    /\ handles = [e \in Engines |-> Empty]
    /\ threads = {NewThread("p1", EngineOf("p1"), "Rmdir", "txf",
                            [parent |-> RootInode, name |-> "a"],
                            [inode |-> 4,
                             keys |-> <<inodeKey(RootInode), entryKey(RootInode),
                                        inodeKey(4), entryKey(4)>>])}
    /\ calls = 1
    /\ done = [p \in Procs |-> [fn |-> "", errno |-> "", a |-> NoLocals]]

StaleProcs == {"p2", "p3"}
StaleNext ==
    \/ \E p \in StaleProcs, parent \in Inos, name \in Names : Rmdir(p, parent, name)
    \/ \E p \in StaleProcs, parent \in Inos, name \in Names : Link(p, 3, parent, name)
    \/ \E t \in threads : RmdirTxf(t)
    \/ \E t \in threads : RmdirExec(t)
    \/ \E t \in threads : LinkTxf(t)
    \/ \E t \in threads : LinkExec(t)

StaleSpec == StaleInit /\ [][StaleNext]_vars

\* C37: Rmdir never removes a directory that has entries when it commits: no
\* entry is ever left in the entry map of a directory whose inode is gone, also
\* when the entry (parent, name) was replaced between Rmdir's read of it and
\* its transaction.
C37_RmdirEmpty ==
    \A e \in DOMAIN dent : e[1] \in DOMAIN inode

\* ---------------------------------------------------------------------------
\* Extended attributes.  SetXattr is one HSET on the xattr key of the inode,
\* outside any transaction.
XattrNames == {"user.k", "user.m"}
SetXattr(p, ino, name) ==
    /\ CanCall(p)
    /\ Called(p)
    /\ xattrs' = Put(xattrs, ino,
                     (IF ino \in DOMAIN xattrs THEN xattrs[ino] ELSE {}) \cup {name})
    /\ UNCHANGED <<inode, dent, chunks, refs, sustain, delfiles, sessions, locks,
                   setting, symlinks, usedSpace, totalInodes>>
    /\ MemoryUnchanged /\ PlaneUnchanged /\ CountersUnchanged
    /\ UNCHANGED <<handles, threads>>
    /\ Ret(NewThread(p, EngineOf(p), "SetXattr", "",
                     [inode |-> ino, name |-> name], NoLocals), "OK")

\* The file 2 has the names "a" and "b" in the root, carries one extended
\* attribute and is open at engine 1.
XattrInit ==
    /\ inode = Put(Put(Empty, RootInode, NewAttr(TypeDirectory, 2, RootLength, RootInode)),
                   2, [mknodAttr(TypeFile, RootInode, <<>>) EXCEPT !.Nlink = 2])
    /\ dent = Put(Put(Empty, <<RootInode, "a">>, packEntry(TypeFile, 2)),
                  <<RootInode, "b">>, packEntry(TypeFile, 2))
    /\ chunks = Empty
    /\ refs = Empty
    /\ sustain = [e \in Engines |-> {}]
    /\ delfiles = Empty
    /\ sessions = Empty
    /\ locks = {}
    /\ setting = NoFormat
    /\ xattrs = Put(Empty, 2, {"user.k"})
    /\ symlinks = {}
    /\ usedSpace = 0
    /\ totalInodes = 1
    /\ nextinode = 2
    /\ nextchunk = 0
    /\ openFiles = [e \in Engines |-> IF e = 1 THEN Put(Empty, 2, 1) ELSE Empty]
    /\ removedFiles = [e \in Engines |-> {}]
    /\ compacting = [e \in Engines |-> {}]
    /\ objects = Empty
    /\ deleted = {}
    /\ handles = [e \in Engines |-> IF e = 1 THEN Put(Empty, 2, 1) ELSE Empty]
    /\ threads = {}
    /\ calls = 0
    /\ done = [p \in Procs |-> [fn |-> "", errno |-> "", a |-> NoLocals]]

XattrNext ==
    \/ \E p \in Procs, name \in XattrNames : SetXattr(p, 2, name)
    \/ \E p \in Procs, name \in Names : Unlink(p, RootInode, name)
    \/ \E p \in Procs : \E ino \in Known(p) : Close(p, ino)
    \/ \E t \in threads : UnlinkTxf(t)
    \/ \E t \in threads : UnlinkExec(t)
    \/ \E t \in threads : UnlinkPost(t)
    \/ \E t \in threads : DeleteInodeGet(t)
    \/ \E t \in threads : DeleteInodeExec(t)
    \/ \E t \in threads : DeleteInodeSRem(t)
    \/ \E t \in threads : DeleteFileScan(t)
    \/ \E t \in threads : DeleteFileZRem(t)

XattrSpec == XattrInit /\ [][XattrNext]_vars

\* C38: extended attributes live as long as their inode: no step that leaves
\* the inode record in place (an Unlink after which nlink > 0, an Unlink of the
\* last name of an open file) removes an attribute of the inode.
C38_XattrsLive ==
    [][\A i \in DOMAIN inode \cap DOMAIN inode' :
          i \in DOMAIN xattrs =>
             /\ i \in DOMAIN xattrs'
             /\ xattrs[i] \subseteq xattrs'[i]]_vars

\* ---------------------------------------------------------------------------
\* Shrink, then extend.  The file of FallocInit holds data in both chunks;
\* callers truncate it to a smaller or a greater length and write single
\* units into either chunk.
ShrinkLengths == {1, ChunkSize + 1, FallocLength}
ShrinkNext ==
    \/ \E p \in DirProcs, length \in ShrinkLengths : Fresh(p) /\ Truncate(p, 3, length)
    \/ \E p \in DirProcs, indx \in Indexes, off \in {1, ChunkSize - 1} :
          Fresh(p) /\ NewChunk(p, 3, indx, off, 1)
    \/ \E t \in threads : TruncateTxf(t)
    \/ \E t \in threads : TruncateExec(t)
    \/ \E t \in threads : WriteTxf(t)
    \/ \E t \in threads : WriteExec(t)

ShrinkSpec == FallocInit /\ [][ShrinkNext]_vars

\* The chunk id that position x of the file resolves to after the step: 0
\* for a hole and for a position that no slice of the chunk reaches.
ResolvedNext(ino, x) ==
    LET k == <<ino, x \div ChunkSize>>
        out == buildSlice(IF k \in DOMAIN chunks' THEN chunks'[k] ELSE <<>>)
        on == Covering(out, x % ChunkSize)
    IN  IF on = {} THEN 0 ELSE out[CHOOSE n \in on : TRUE].Chunkid

\* C39: once the file has been cut to length n, a step that extends it (a
\* Truncate to a greater length, a Write beyond the length) leaves every
\* position from the old length to the new one that it did not write itself
\* resolving to a hole: data stored above n before never shows again.
C39_ShrinkHides ==
    [][\A t \in threads :
          (t.fn \in {"Truncate", "Write"} /\ t.pc = "exec" /\ Stepped(t)
              /\ t.a.inode \in DOMAIN inode /\ t.a.inode \in DOMAIN inode'
              /\ inode'[t.a.inode].Length > inode[t.a.inode].Length) =>
             \A x \in inode[t.a.inode].Length..(inode'[t.a.inode].Length - 1) :
                \/ ResolvedNext(t.a.inode, x) = 0
                \/ t.fn = "Write" /\ ResolvedNext(t.a.inode, x) = t.a.slice.Chunkid]_vars

\* ---------------------------------------------------------------------------
\* Rename over a file.  The root holds the empty file "a" (inode 2) and the
\* file "b" (inode 3) of a chunk and a half, with data in both chunks; one
\* caller renames an entry over the other or unlinks one.
ReplaceInit ==
    /\ inode = Put(Put(Put(Empty, RootInode,
                           NewAttr(TypeDirectory, 2, RootLength, RootInode)),
                       2, NewAttr(TypeFile, 1, 0, RootInode)),
                   3, NewAttr(TypeFile, 1, FallocLength, RootInode))
    /\ dent = Put(Put(Empty, <<RootInode, "a">>, packEntry(TypeFile, 2)),
                  <<RootInode, "b">>, packEntry(TypeFile, 3))
    /\ chunks = Put(Put(Empty, <<3, 0>>, <<Record(0, 1, ChunkSize, 0, ChunkSize)>>),
                    <<3, 1>>, <<Record(0, 2, PageSize, 0, PageSize)>>)
    /\ refs = Empty
    /\ sustain = [e \in Engines |-> {}]
    /\ delfiles = Empty
    /\ sessions = Empty
    /\ locks = {}
    /\ setting = NoFormat
    /\ xattrs = Empty
    /\ symlinks = {}
    /\ usedSpace = align4K(FallocLength)
    /\ totalInodes = 2
    /\ nextinode = 3
    /\ nextchunk = 2
    /\ openFiles = [e \in Engines |-> Empty]
    /\ removedFiles = [e \in Engines |-> {}]
    /\ compacting = [e \in Engines |-> {}]
    /\ objects = Empty
    /\ deleted = {}
    /\ handles = [e \in Engines |-> Empty]
    /\ threads = {}
    /\ calls = 0
    /\ done = [p \in Procs |-> [fn |-> "", errno |-> "", a |-> NoLocals]]

ReplaceNext ==
    \/ \E p \in DirProcs, name \in Names, nd \in Names :
          Fresh(p) /\ Rename(p, RootInode, name, RootInode, nd)
    \/ \E p \in DirProcs, name \in Names : Fresh(p) /\ Unlink(p, RootInode, name)
    \/ \E t \in threads : RenamePre(t)
    \/ \E t \in threads : RenameTxf(t)
    \/ \E t \in threads : RenameExec(t)
    \/ \E t \in threads : UnlinkTxf(t)
    \/ \E t \in threads : UnlinkExec(t)
    \/ \E t \in threads : DeleteFileScan(t)
    \/ \E t \in threads : DeleteChunkTxf(t)
    \/ \E t \in threads : DeleteChunkExec(t)
    \/ \E t \in threads, ok \in BOOLEAN : DeleteSliceMsg(t, ok)
    \/ \E t \in threads : DeleteSliceDel(t)
    \/ \E t \in threads : DeleteFileZRem(t)

ReplaceSpec == ReplaceInit /\ [][ReplaceNext]_vars

\* The step removes the record of the file i, enqueues it in delfiles with
\* its own length and starts a deleteFile for that inode and that length.
DeletesWithOwnLength(i) ==
    /\ toDelete(i, inode[i].Length) \in DOMAIN delfiles'
    /\ \E u \in threads' \ threads :
          /\ u.fn = "deleteFile"
          /\ u.a.inode = i
          /\ u.a.length = inode[i].Length

\* C40: a Rename that replaces a regular file whose link count drops to 0 and
\* that is not open enqueues the delfiles entry and starts the deleteFile with
\* the inode and the length of the replaced file, as Unlink does, so that the
\* chunk logs below ceil(length / ChunkSize) are the ones trimmed.
C40_RenameReplaces ==
    [][\A t \in threads :
          (t.fn \in {"Rename", "Unlink"} /\ t.pc = "exec" /\ Stepped(t)) =>
             \A i \in DOMAIN inode \ DOMAIN inode' :
                inode[i].Typ = TypeFile => DeletesWithOwnLength(i)]_vars

====
